---- MODULE Spec2Model ----
(***************************************************************************)
(* Model of the graceful-degradation engine of scripts/lib/degradation.py: *)
(* the persisted SystemState file, the health-check cycle with recovery,   *)
(* lock / unlock / reset, feature gating and (de)serialization.            *)
(***************************************************************************)
EXTENDS Integers, Sequences, FiniteSets, TLC

VARIABLES file, now, ret, last, attempts, fnIn, fnOut, procs

vars == <<file, now, ret, last, attempts, fnIn, fnOut, procs>>

(***************************************************************************)
(* Bounds of the model.                                                    *)
(***************************************************************************)
\* Number of operations in one behaviour; every operation reads the clock once.
MaxClock == 3

(***************************************************************************)
(* DegradationLevel: Enum with auto() values 1..5.                         *)
(***************************************************************************)
FULL == 1
REDUCED == 2
MANUAL == 3
SAFE == 4
RECOVERY == 5

DegradationLevel == {FULL, REDUCED, MANUAL, SAFE, RECOVERY}

\* level.name
LevelName(v) ==
    CASE v = FULL -> "FULL"
      [] v = REDUCED -> "REDUCED"
      [] v = MANUAL -> "MANUAL"
      [] v = SAFE -> "SAFE"
      [] v = RECOVERY -> "RECOVERY"

\* DegradationLevel[name]: the member of that name, KeyError (0) otherwise.
LevelByName(n) ==
    IF \E v \in DegradationLevel : LevelName(v) = n
    THEN CHOOSE v \in DegradationLevel : LevelName(v) = n
    ELSE 0

(***************************************************************************)
(* Time.  A datetime is [sec, micro]; the clock value n is the datetime    *)
(* Dt(n).  isoformat() leaves the fraction out when microsecond is 0, and  *)
(* fromisoformat() reads both forms; any other text is a ValueError.       *)
(***************************************************************************)
Dt(n) == [sec |-> n \div 2, micro |-> n % 2]

isoformat_seconds(dt) == [form |-> "seconds", sec |-> dt.sec, frac |-> 0]

isoformat(dt) ==
    IF dt.micro = 0
    THEN [form |-> "seconds", sec |-> dt.sec, frac |-> 0]
    ELSE [form |-> "fraction", sec |-> dt.sec, frac |-> dt.micro]

Garbage == [form |-> "garbage", sec |-> 0, frac |-> 0]

IsIsoString(s) == s.form \in {"seconds", "fraction"}

fromisoformat(s) ==
    IF s.form = "seconds"
    THEN [sec |-> s.sec, micro |-> 0]
    ELSE [sec |-> s.sec, micro |-> s.frac]

(***************************************************************************)
(* dict: insertion-ordered, a sequence of [key, val] items.                *)
(***************************************************************************)
EmptyDict == <<>>

Keys(d) == {d[i].key : i \in DOMAIN d}

HasKey(d, k) == \E i \in DOMAIN d : d[i].key = k

GetItem(d, k) == d[CHOOSE i \in DOMAIN d : d[i].key = k].val

\* d[k] = v: an existing key keeps its position, a new key goes last.
SetItem(d, k, v) ==
    IF HasKey(d, k)
    THEN [i \in DOMAIN d |-> IF d[i].key = k THEN [key |-> k, val |-> v] ELSE d[i]]
    ELSE Append(d, [key |-> k, val |-> v])

(***************************************************************************)
(* HealthStatus and SystemState.                                           *)
(***************************************************************************)
HealthStatus(h, c, m, t) ==
    [healthy |-> h, component |-> c, message |-> m, last_check |-> t,
     recovery_attempted |-> FALSE, recovery_succeeded |-> FALSE]

NoReason == [text |-> "", names |-> <<>>]

\* SystemState(level=DegradationLevel.FULL) built at time t.
SystemState(level, t) ==
    [level |-> level, components |-> EmptyDict, last_transition |-> t,
     transition_reason |-> NoReason, locked |-> FALSE, lock_reason |-> ""]

(***************************************************************************)
(* Serialization.  The JSON object is a record; a record that lacks a key  *)
(* models a JSON object without that key.                                  *)
(***************************************************************************)
SerializeStatus(status) ==
    [healthy |-> status.healthy,
     component |-> status.component,
     message |-> status.message,
     last_check |-> isoformat(status.last_check),
     recovery_attempted |-> status.recovery_attempted,
     recovery_succeeded |-> status.recovery_succeeded]

_serialize_state(state) ==
    [level |-> LevelName(state.level),
     last_transition |-> isoformat(state.last_transition),
     transition_reason |-> state.transition_reason,
     locked |-> state.locked,
     lock_reason |-> state.lock_reason,
     components |->
        [i \in DOMAIN state.components |->
            [key |-> state.components[i].key,
             val |-> SerializeStatus(state.components[i].val)]]]

\* data.get(key, default)
DictGet(data, key, default) == IF key \in DOMAIN data THEN data[key] ELSE default

\* The exception HealthStatus(...) of one component entry raises, "none" if none:
\* the four subscripts come first (KeyError), then fromisoformat (ValueError).
StatusError(cd) ==
    IF ~({"healthy", "component", "message", "last_check"} \subseteq DOMAIN cd)
    THEN "KeyError"
    ELSE IF ~IsIsoString(cd.last_check) THEN "ValueError" ELSE "none"

DeserializeStatus(cd) ==
    [healthy |-> cd.healthy,
     component |-> cd.component,
     message |-> cd.message,
     last_check |-> fromisoformat(cd.last_check),
     recovery_attempted |-> DictGet(cd, "recovery_attempted", FALSE),
     recovery_succeeded |-> DictGet(cd, "recovery_succeeded", FALSE)]

\* The first exception _deserialize_state raises on data, "none" if none: the
\* component loop runs first, then level, then last_transition.
DeserializeError(data) ==
    LET comps == DictGet(data, "components", EmptyDict)
        bad == {i \in DOMAIN comps : StatusError(comps[i].val) # "none"}
    IN  IF bad # {}
        THEN StatusError(comps[CHOOSE i \in bad : \A j \in bad : i <= j].val)
        ELSE IF "level" \notin DOMAIN data THEN "KeyError"
        ELSE IF LevelByName(data.level) = 0 THEN "KeyError"
        ELSE IF "last_transition" \notin DOMAIN data THEN "KeyError"
        ELSE IF ~IsIsoString(data.last_transition) THEN "ValueError"
        ELSE "none"

_deserialize_state(data) ==
    LET comps == DictGet(data, "components", EmptyDict)
    IN  [level |-> LevelByName(data.level),
         components |->
            [i \in DOMAIN comps |->
                [key |-> comps[i].key, val |-> DeserializeStatus(comps[i].val)]],
         last_transition |-> fromisoformat(data.last_transition),
         transition_reason |-> DictGet(data, "transition_reason", NoReason),
         locked |-> DictGet(data, "locked", FALSE),
         lock_reason |-> DictGet(data, "lock_reason", "")]

(***************************************************************************)
(* The state file.  json is "object" (data is the parsed object), "array"  *)
(* (valid JSON that is not an object) or "invalid" (not JSON).             *)
(***************************************************************************)
NoData == [level |-> "FULL"]

Absent == [exists |-> FALSE, json |-> "invalid", data |-> NoData]

FileOf(state) == [exists |-> TRUE, json |-> "object", data |-> _serialize_state(state)]

\* The exceptions load_state catches: json.JSONDecodeError, KeyError, OSError.
Caught == {"JSONDecodeError", "KeyError", "OSError"}

\* What json.load followed by _deserialize_state raises on an existing file.
ReadError(f) ==
    CASE f.json = "invalid" -> "JSONDecodeError"
      [] f.json = "array" -> "AttributeError"
      [] OTHER -> DeserializeError(f.data)

NoState == SystemState(FULL, Dt(0))

\* load_state at time t: [exc, state]; exc is the exception that escapes.
load_state(f, t) ==
    IF f.exists /\ ReadError(f) = "none"
    THEN [exc |-> "none", state |-> _deserialize_state(f.data)]
    ELSE IF f.exists /\ ReadError(f) \notin Caught
    THEN [exc |-> ReadError(f), state |-> NoState]
    ELSE [exc |-> "none", state |-> SystemState(FULL, t)]

\* save_state: the write is accepted (disk = "ok") or mkdir / open raises OSError
\* and the file stays as it was.
save_state(f, state, disk) ==
    IF disk = "ok"
    THEN [exc |-> "none", file |-> FileOf(state)]
    ELSE [exc |-> "OSError", file |-> f]

(***************************************************************************)
(* Health probes and recovery actions.  What the environment answers in    *)
(* one health-check cycle is the input inp:                                *)
(*   inp.out[c]    "H"  the probe of c is healthy                          *)
(*                 "U"  unhealthy, and the recovery action of c fails      *)
(*                 "R"  unhealthy, recovery succeeds, the re-check is      *)
(*                      healthy                                            *)
(*                 "S"  unhealthy, recovery succeeds, the re-check is      *)
(*                      still unhealthy                                    *)
(*   inp.daemon    the configured tracker is BEADS or CHAINLINK, so the    *)
(*                 beads_daemon probe runs                                 *)
(***************************************************************************)
Components == <<"config", "git", "task_tracker", "beads_daemon">>

ComponentSet == {Components[i] : i \in DOMAIN Components}

Outcome == {"H", "U", "R", "S"}

\* With no daemon probe, out.beads_daemon only says how the recovery of a stored
\* beads_daemon entry answers.
Inputs ==
    {i \in [out : [ComponentSet -> Outcome], daemon : BOOLEAN] :
        ~i.daemon => i.out["beads_daemon"] # "H"}

\* check_config_health, check_git_health, check_task_tracker_health and
\* check_beads_daemon_health: a fresh HealthStatus for component c at time t.
Check(c, h, t) == HealthStatus(h, c, IF h THEN "healthy" ELSE "error", t)

\* A probe answering "X" meets an exception its code names no handler for
\* (PermissionError, NotADirectoryError).  check_config_health and
\* check_beads_daemon_health catch Exception and answer unhealthy;
\* check_git_health catches TimeoutExpired and FileNotFoundError only and
\* check_task_tracker_health catches nothing: there the exception leaves the
\* checks list, "none" if no probe lets one out.
ProbeError(inp) ==
    IF inp.out["git"] = "X" \/ inp.out["task_tracker"] = "X"
    THEN "PermissionError"
    ELSE "none"

\* The environments in which the probe of one component raises and every other
\* component is healthy.
RaisingInputs ==
    {[out |-> [c \in ComponentSet |-> IF c = x THEN "X" ELSE "H"],
      daemon |-> TRUE] : x \in ComponentSet}

\* The checks list of run_health_checks.
Checks(inp, t) ==
    LET probed == IF inp.daemon THEN Components ELSE SubSeq(Components, 1, 3)
    IN  [i \in DOMAIN probed |-> Check(probed[i], inp.out[probed[i]] = "H", t)]

\* attempt_recovery: False for a component without a recovery action.
attempt_recovery(component, inp) ==
    IF component \notin ComponentSet THEN FALSE ELSE inp.out[component] \in {"R", "S"}

(***************************************************************************)
(* State transitions.                                                      *)
(***************************************************************************)
\* [c for c in components.values() if not c.healthy], in dict order.
Unhealthy(components) ==
    SelectSeq([i \in DOMAIN components |-> components[i].val], LAMBDA c : ~c.healthy)

ConfigFirstLevel(components) ==
    LET unhealthy_names == {components[i].val.component :
                               i \in {j \in DOMAIN components : ~components[j].val.healthy}}
    IN  IF unhealthy_names = {} THEN FULL
        ELSE IF "config" \in unhealthy_names THEN MANUAL
        ELSE IF "git" \in unhealthy_names THEN SAFE
        ELSE IF "task_tracker" \in unhealthy_names THEN REDUCED
        ELSE IF "beads_daemon" \in unhealthy_names THEN REDUCED
        ELSE FULL

compute_degradation_level(components) ==
    LET unhealthy == Unhealthy(components)
        unhealthy_names == {unhealthy[i].component : i \in DOMAIN unhealthy}
    IN  IF unhealthy = <<>> THEN FULL
        ELSE IF "git" \in unhealthy_names THEN SAFE
        ELSE IF "config" \in unhealthy_names THEN MANUAL
        ELSE IF "task_tracker" \in unhealthy_names THEN REDUCED
        ELSE IF "beads_daemon" \in unhealthy_names THEN REDUCED
        ELSE FULL

TransitionIgnoringLock(state, new_level, reason, t) ==
    IF state.level # new_level
    THEN [state EXCEPT !.level = new_level,
                       !.last_transition = t,
                       !.transition_reason = reason]
    ELSE state

transition_to(state, new_level, reason, t) ==
    IF state.locked THEN state
    ELSE IF state.level # new_level
    THEN [state EXCEPT !.level = new_level,
                       !.last_transition = t,
                       !.transition_reason = reason]
    ELSE state

ReasonAlwaysIssues(state, new_level) ==
    LET unhealthy == Unhealthy(state.components)
    IN  [text |-> "Issues with",
         names |-> [i \in DOMAIN unhealthy |-> unhealthy[i].component]]

_build_transition_reason(state, new_level) ==
    LET unhealthy == Unhealthy(state.components)
    IN  IF new_level = FULL
        THEN [text |-> "All components healthy", names |-> <<>>]
        ELSE IF unhealthy = <<>>
        THEN [text |-> "Transitioning to", names |-> <<LevelName(new_level)>>]
        ELSE [text |-> "Issues with",
              names |-> [i \in DOMAIN unhealthy |-> unhealthy[i].component]]

(***************************************************************************)
(* run_health_checks.                                                      *)
(***************************************************************************)
\* for check in checks: state.components[check.component] = check
RECURSIVE UpdateComponents(_, _)
UpdateComponents(components, checks) ==
    IF checks = <<>> THEN components
    ELSE UpdateComponents(SetItem(components, Head(checks).component, Head(checks)),
                          Tail(checks))

\* The dict positions of the unhealthy entries, in dict order: the loop below
\* walks the objects that were unhealthy when it started.
UnhealthyAt(components) ==
    SelectSeq([i \in DOMAIN components |-> i], LAMBDA i : ~components[i].val.healthy)

\* The recovery loop over the unhealthy objects at positions todo.  An object is
\* marked in place; it is still in the dict unless an earlier re-check replaced
\* its entry (positions in gone).  invoked collects the components whose recovery
\* action ran.
RECURSIVE RecoveryLoop(_, _, _, _, _, _, _)
RecoveryLoop(components, snapshot, todo, gone, invoked, inp, t) ==
    IF todo = <<>> THEN [components |-> components, invoked |-> invoked]
    ELSE
        LET at == Head(todo)
            component == snapshot[at].val
        IN  IF component.recovery_attempted
            THEN RecoveryLoop(components, snapshot, Tail(todo), gone, invoked, inp, t)
            ELSE
                LET succeeded == attempt_recovery(component.component, inp)
                    marked == [component EXCEPT !.recovery_attempted = TRUE,
                                                !.recovery_succeeded = succeeded]
                    after == IF at \in gone THEN components
                             ELSE [components EXCEPT ![at].val = marked]
                    recheck == Check(component.component,
                                     inp.out[component.component] = "R", t)
                    ran == IF component.component \in ComponentSet
                           THEN invoked \cup {component.component} ELSE invoked
                IN  IF succeeded
                    THEN RecoveryLoop(SetItem(after, component.component, recheck),
                                      snapshot, Tail(todo),
                                      gone \cup {i \in DOMAIN after :
                                                    after[i].key = component.component},
                                      ran, inp, t)
                    ELSE RecoveryLoop(after, snapshot, Tail(todo), gone, ran, inp, t)

\* Lines 435-438: if new_level != state.level, transition_to with the built reason.
TransitionAlways(state, new_level, t) ==
    IF state.locked THEN state
    ELSE [state EXCEPT !.level = new_level,
                       !.last_transition = t,
                       !.transition_reason = _build_transition_reason(state, new_level)]

Transition(state, new_level, t) ==
    IF new_level # state.level
    THEN transition_to(state, new_level, _build_transition_reason(state, new_level), t)
    ELSE state

\* One call at time t on file f with the environment answering inp and the disk
\* answering disk.  exc is the exception that escapes ("none": state is returned).
run_health_checks(f, t, inp, disk) ==
    LET loaded == load_state(f, t)
        state == loaded.state
        checked == UpdateComponents(state.components, Checks(inp, t))
        candidate == compute_degradation_level(checked)
        recovery == IF candidate > state.level
                    THEN RecoveryLoop(checked, checked, UnhealthyAt(checked),
                                      {}, {}, inp, t)
                    ELSE [components |-> checked, invoked |-> {}]
        new_level == IF candidate > state.level
                     THEN compute_degradation_level(recovery.components)
                     ELSE candidate
        final == Transition([state EXCEPT !.components = recovery.components],
                            new_level, t)
        saved == save_state(f, final, disk)
    IN  IF loaded.exc # "none"
        THEN [exc |-> loaded.exc, state |-> NoState, file |-> f, invoked |-> {},
              candidate |-> FULL, new_level |-> FULL]
        ELSE IF ProbeError(inp) # "none"
        THEN [exc |-> ProbeError(inp), state |-> NoState, file |-> f, invoked |-> {},
              candidate |-> FULL, new_level |-> FULL]
        ELSE [exc |-> saved.exc,
              state |-> IF saved.exc = "none" THEN final ELSE NoState,
              file |-> saved.file, invoked |-> recovery.invoked,
              candidate |-> candidate, new_level |-> new_level]

(***************************************************************************)
(* Feature gating, lock, unlock, reset.                                    *)
(***************************************************************************)
\* The availability table: feature -> the last level at which it is available.
Availability ==
    [task_tracking |-> REDUCED, adversarial_review |-> REDUCED, auto_sync |-> REDUCED,
     pre_commit_checks |-> MANUAL, trace_markers |-> MANUAL, git_operations |-> SAFE]

FeatureStrictlyBelow(level, feature) ==
    level < DictGet(Availability, feature, FULL)

\* level.value <= availability.get(feature, FULL).value
FeatureAvailableAt(level, feature) ==
    level <= DictGet(Availability, feature, FULL)

\* is_feature_available reads the level through get_current_level / load_state.
is_feature_available(f, t, feature) ==
    LET loaded == load_state(f, t)
    IN  IF loaded.exc # "none"
        THEN [exc |-> loaded.exc, value |-> FALSE]
        ELSE [exc |-> "none", value |-> FeatureAvailableAt(loaded.state.level, feature)]

lock_level(f, t, reason, disk) ==
    LET loaded == load_state(f, t)
        state == [loaded.state EXCEPT !.locked = TRUE, !.lock_reason = reason]
    IN  IF loaded.exc # "none"
        THEN [exc |-> loaded.exc, file |-> f]
        ELSE save_state(f, state, disk)

unlock_level(f, t, disk) ==
    LET loaded == load_state(f, t)
        state == [loaded.state EXCEPT !.locked = FALSE, !.lock_reason = ""]
    IN  IF loaded.exc # "none"
        THEN [exc |-> loaded.exc, file |-> f]
        ELSE save_state(f, state, disk)

ResetKeepingLock(f, t) ==
    LET loaded == load_state(f, t)
    IN  IF loaded.exc = "none" /\ loaded.state.locked
        THEN loaded.state
        ELSE SystemState(FULL, t)

\* The state reset_to_full builds: SystemState(level=DegradationLevel.FULL).
ResetState(f, t) == SystemState(FULL, t)

reset_to_full(f, t, disk) ==
    LET state == ResetState(f, t)
        saved == save_state(f, state, disk)
    IN  [exc |-> saved.exc,
         state |-> IF saved.exc = "none" THEN state ELSE NoState,
         file |-> saved.file]

(***************************************************************************)
(* The state machine.                                                      *)
(*   file      the state file                                              *)
(*   now       the clock; every operation reads it once and it advances    *)
(*   ret       what the last operation gave its caller                     *)
(*   last      the last operation: its name, what load_state raised, whether *)
(*             the file held a state, the level and lock found, what the   *)
(*             disk answered, whether the daemon probe ran, the components *)
(*             whose probe met an exception                                *)
(*   procs     the two concurrent invocations of run_health_checks: where   *)
(*             each stands and the state it holds in memory                *)
(*   attempts  per component, the recovery actions invoked over the        *)
(*             health-check cycles since the component was last healthy    *)
(***************************************************************************)
Disk == {"ok", "oserror"}

LockReasons == {"maintenance"}

Features ==
    {"task_tracking", "adversarial_review", "auto_sync", "pre_commit_checks",
     "trace_markers", "git_operations", "unknown_feature"}

\* What an editor, a crash or a manual clean-up can do to an existing state file.
Damages ==
    {"delete", "truncate", "array", "drop_level", "drop_last_transition",
     "bogus_level", "bad_timestamp"}

Damaged(f, kind) ==
    CASE kind = "delete" -> Absent
      [] kind = "truncate" -> [f EXCEPT !.json = "invalid", !.data = NoData]
      [] kind = "array" -> [f EXCEPT !.json = "array", !.data = NoData]
      [] kind = "drop_level" ->
            [f EXCEPT !.data = [k \in DOMAIN f.data \ {"level"} |-> f.data[k]]]
      [] kind = "drop_last_transition" ->
            [f EXCEPT !.data = [k \in DOMAIN f.data \ {"last_transition"} |-> f.data[k]]]
      [] kind = "bogus_level" -> [f EXCEPT !.data.level = "BOGUS"]
      [] kind = "bad_timestamp" -> [f EXCEPT !.data.last_transition = Garbage]

NoRet == [exc |-> "none", state |-> NoState, value |-> FALSE]

NoLast ==
    [op |-> "init", exc |-> "none", valid |-> FALSE, level |-> FULL, locked |-> FALSE,
     disk |-> "ok", daemon |-> FALSE, raised |-> {}]

NoAttempts == [c \in ComponentSet |-> 0]

\* A cycle that raises while loading or saving gives its caller the exception
\* alone, whatever the probes answered: it takes the one input FailedInput.
FailedInput == [out |-> [c \in ComponentSet |-> "U"], daemon |-> FALSE]

\* fnOut before a function is applied.
Unused ==
    [fn |-> "none", level |-> FULL, exc |-> "none", value |-> FALSE,
     data |-> NoData, state |-> NoState, again |-> NoData]

\* No concurrent invocation is under way.
NoProcs == [p \in {"A", "B"} |-> [at |-> "done", state |-> NoState]]

NoIn == [fn |-> "none", state |-> NoState, feature |-> "", inp |-> FailedInput]


\* The file holds a state load_state reads back.
Valid(f) == f.exists /\ ReadError(f) = "none"

Persisted(f) == _deserialize_state(f.data)

\* The last operation as recorded for an operation that loads the state first.
Loaded(op, f, t, disk) ==
    LET loaded == load_state(f, t)
    IN  [NoLast EXCEPT !.op = op, !.exc = loaded.exc, !.valid = Valid(f),
                       !.level = loaded.state.level,
                       !.locked = loaded.state.locked, !.disk = disk]

Init ==
    /\ file = Absent
    /\ now = 0
    /\ ret = NoRet
    /\ last = NoLast
    /\ attempts = NoAttempts
    /\ fnIn = NoIn
    /\ fnOut = Unused
    /\ procs = NoProcs

\* Recovery actions counted per component: a component that is healthy (or has no
\* entry) at the end of the cycle starts afresh.
Counted(old, r) ==
    [c \in ComponentSet |->
        IF r.exc # "none" THEN 0
        ELSE IF ~HasKey(r.state.components, c) \/ GetItem(r.state.components, c).healthy
        THEN 0
        ELSE old[c] + (IF c \in r.invoked THEN 1 ELSE 0)]

\* The inputs of one cycle that can differ in their effect on file f at time t:
\* the answer of a recovery action counts only for the components the recovery
\* loop reaches (the candidate level is stricter than the loaded one, the entry is
\* unhealthy and not yet marked); every other unhealthy component is given "U".
Reached(f, t, daemon, healthy) ==
    LET loaded == load_state(f, t)
        inp == [out |-> [c \in ComponentSet |-> IF c \in healthy THEN "H" ELSE "U"],
                daemon |-> daemon]
        checked == UpdateComponents(loaded.state.components, Checks(inp, t))
        todo == Unhealthy(checked)
    IN  IF loaded.exc # "none" THEN {}
        ELSE IF compute_degradation_level(checked) <= loaded.state.level THEN {}
        ELSE {todo[i].component : i \in {j \in DOMAIN todo : ~todo[j].recovery_attempted}}
                \cap ComponentSet

InputsAt(f, t) ==
    IF load_state(f, t).exc # "none" THEN {FailedInput}
    ELSE UNION {UNION {
            {[out |-> [c \in ComponentSet |->
                        IF c \in DOMAIN answer THEN answer[c]
                        ELSE IF c \in healthy THEN "H" ELSE "U"],
              daemon |-> daemon] :
                answer \in [Reached(f, t, daemon, healthy) -> {"U", "R", "S"}]} :
            healthy \in SUBSET (IF daemon THEN ComponentSet
                                ELSE ComponentSet \ {"beads_daemon"})} :
            daemon \in BOOLEAN}

\* An operation that raised left the file as it was, so what can follow it is what
\* could have followed the state before it: a behaviour is not continued past an
\* escaped exception.
Running == now < MaxClock /\ ret.exc = "none"

RunHealthChecks ==
    /\ Running
    /\ \E disk \in Disk :
        \E inp \in IF disk # "ok" THEN {FailedInput}
                   ELSE IF load_state(file, Dt(now)).exc # "none"
                   THEN InputsAt(file, Dt(now))
                   ELSE InputsAt(file, Dt(now)) \cup RaisingInputs :
            \E r \in {run_health_checks(file, Dt(now), inp, disk)} :
                /\ file' = r.file
                /\ ret' = [exc |-> r.exc, state |-> r.state, value |-> FALSE]
                /\ last' = IF r.exc # "none"
                           THEN [Loaded("run_health_checks", file, Dt(now), disk) EXCEPT
                                    !.raised = {c \in ComponentSet : inp.out[c] = "X"}]
                           ELSE [Loaded("run_health_checks", file, Dt(now), disk) EXCEPT
                                    !.daemon = inp.daemon,
                                    !.raised = {c \in ComponentSet : inp.out[c] = "X"}]
                /\ attempts' = Counted(attempts, r)
    /\ now' = now + 1
    /\ UNCHANGED <<fnIn, fnOut, procs>>

LockLevel ==
    /\ Running
    /\ \E reason \in LockReasons, disk \in Disk :
        LET r == lock_level(file, Dt(now), reason, disk)
        IN  /\ file' = r.file
            /\ ret' = [NoRet EXCEPT !.exc = r.exc]
            /\ last' = Loaded("lock_level", file, Dt(now), disk)
    /\ now' = now + 1
    /\ attempts' = NoAttempts
    /\ UNCHANGED <<fnIn, fnOut, procs>>

UnlockLevel ==
    /\ Running
    /\ \E disk \in Disk :
        LET r == unlock_level(file, Dt(now), disk)
        IN  /\ file' = r.file
            /\ ret' = [NoRet EXCEPT !.exc = r.exc]
            /\ last' = Loaded("unlock_level", file, Dt(now), disk)
    /\ now' = now + 1
    /\ attempts' = NoAttempts
    /\ UNCHANGED <<fnIn, fnOut, procs>>

ResetToFull ==
    /\ Running
    /\ \E disk \in Disk :
        LET r == reset_to_full(file, Dt(now), disk)
        IN  /\ file' = r.file
            /\ ret' = [exc |-> r.exc, state |-> r.state, value |-> FALSE]
            /\ last' = [NoLast EXCEPT !.op = "reset_to_full", !.disk = disk,
                            !.valid = Valid(file),
                            !.level = IF Valid(file) THEN Persisted(file).level ELSE FULL,
                            !.locked = IF Valid(file) THEN Persisted(file).locked ELSE FALSE]
    /\ now' = now + 1
    /\ attempts' = NoAttempts
    /\ UNCHANGED <<fnIn, fnOut, procs>>

\* The environment damages or removes the state file between two operations.
DamageFile ==
    /\ Running
    /\ file.exists /\ file.json = "object"
    /\ \E kind \in Damages :
        /\ (kind # "delete") => Valid(file)
        /\ file' = Damaged(file, kind)
    /\ ret' = NoRet
    /\ last' = [NoLast EXCEPT !.op = "damage"]
    /\ now' = now + 1
    /\ attempts' = NoAttempts
    /\ UNCHANGED <<fnIn, fnOut, procs>>

Next ==
    \/ RunHealthChecks
    \/ LockLevel
    \/ UnlockLevel
    \/ ResetToFull
    \/ DamageFile

Spec == Init /\ [][Next]_vars

(***************************************************************************)
(* Properties of the state machine.                                        *)
(***************************************************************************)
\* The step is one call of run_health_checks.
CycleStep == now' = now + 1 /\ last'.op = "run_health_checks"

\* The components whose probes the last cycle ran.
Probed(daemon) == IF daemon THEN ComponentSet ELSE ComponentSet \ {"beads_daemon"}

\* Every probed component has an entry written at time t.
Replaced(components, daemon, t) ==
    \A c \in Probed(daemon) :
        HasKey(components, c) /\ GetItem(components, c).last_check = t

\* C1: while the persisted state is locked, a call of run_health_checks leaves the
\* persisted level, last_transition and transition_reason as they were, whatever
\* the probes, the recovery actions and the disk answer; a call that returns has
\* replaced the entry of every component it probed, in the returned and in the
\* persisted state.
LockInvariance ==
    [][(CycleStep /\ Valid(file) /\ Persisted(file).locked) =>
            /\ Valid(file')
            /\ Persisted(file').locked
            /\ Persisted(file').level = Persisted(file).level
            /\ Persisted(file').last_transition = Persisted(file).last_transition
            /\ Persisted(file').transition_reason = Persisted(file).transition_reason
            /\ ret'.exc = "none" =>
                /\ Replaced(Persisted(file').components, last'.daemon, Dt(now))
                /\ Replaced(ret'.state.components, last'.daemon, Dt(now))]_vars

\* A locked cycle returned, and the level it kept is not the level its components
\* give.
LockHeldLevel ==
    /\ last.op = "run_health_checks"
    /\ last.locked
    /\ ret.exc = "none"
    /\ Valid(file)
    /\ Persisted(file).level # compute_degradation_level(Persisted(file).components)
    /\ Replaced(Persisted(file).components, last.daemon, Dt(now - 1))

\* C4: over consecutive calls of run_health_checks during which a component stays
\* unhealthy, its recovery action is invoked at most once.
RecoveryAtMostOnce == \A c \in ComponentSet : attempts[c] <= 1

\* C5: a call of run_health_checks on a persisted state changes last_transition
\* exactly when it changes level, and transition_reason exactly when it changes
\* level; a changed level is stamped with the time of the call and given the
\* reason "All components healthy" (new level FULL) or the list of the unhealthy
\* components; and a step that makes the persisted level less strict is a call of
\* run_health_checks or reset_to_full.
TransitionsRecorded ==
    [][(now' # now /\ Valid(file) /\ Valid(file')) =>
            LET old == Persisted(file)
                new == Persisted(file')
                unhealthy == Unhealthy(new.components)
            IN  /\ new.level < old.level =>
                        last'.op \in {"run_health_checks", "reset_to_full"}
                /\ last'.op = "run_health_checks" =>
                    /\ (new.level # old.level) <=>
                            (new.last_transition # old.last_transition)
                    /\ (new.level # old.level) <=>
                            (new.transition_reason # old.transition_reason)
                    /\ new.level # old.level =>
                        /\ new.last_transition = Dt(now)
                        /\ new.level = FULL =>
                            new.transition_reason =
                                [text |-> "All components healthy", names |-> <<>>]
                        /\ new.level # FULL =>
                            /\ new.transition_reason.text = "Issues with"
                            /\ new.transition_reason.names =
                                [i \in DOMAIN unhealthy |-> unhealthy[i].component]
                            /\ unhealthy # <<>>]_vars

\* A cycle took the persisted level back to FULL and recorded it.
RecoveredToFull ==
    /\ last.op = "run_health_checks"
    /\ last.valid
    /\ last.level > FULL
    /\ Valid(file)
    /\ Persisted(file).level = FULL
    /\ Persisted(file).transition_reason.text = "All components healthy"
    /\ Persisted(file).last_transition = Dt(now - 1)

\* The state a reset leaves: level FULL, no components, unlocked, no lock reason.
Fresh(state) ==
    /\ state.level = FULL
    /\ state.components = <<>>
    /\ ~state.locked
    /\ state.lock_reason = ""

\* C6: whatever the state file held (a locked state at any level, a damaged file,
\* nothing), a reset_to_full whose write the disk accepts returns and persists the
\* state of level FULL with no components, unlocked, with an empty lock_reason.
ResetAlwaysFull ==
    (last.op = "reset_to_full" /\ last.disk = "ok") =>
        /\ ret.exc = "none"
        /\ Fresh(ret.state)
        /\ Valid(file)
        /\ Fresh(Persisted(file))
        /\ Persisted(file) = ret.state

\* reset_to_full ran on a state locked at SAFE.
ResetFromLockedSafe ==
    /\ last.op = "reset_to_full"
    /\ last.valid
    /\ last.locked
    /\ last.level = SAFE
    /\ Valid(file)
    /\ Fresh(Persisted(file))

\* C9: load_state never raises; on an absent or malformed file the operation goes
\* on from the default state (level FULL, unlocked).
LoadNeverRaises ==
    last.op \in {"run_health_checks", "lock_level", "unlock_level"} =>
        /\ last.exc = "none"
        /\ ~last.valid => (last.level = FULL /\ ~last.locked)

\* C10: a call of run_health_checks whose write fails still returns a state.
SaveFailureNotFatal ==
    (last.op = "run_health_checks" /\ last.exc = "none" /\ last.disk # "ok") =>
        ret.exc = "none"

\* C11: a call of run_health_checks during which the probe of a component raised
\* returns a state, and that state holds an unhealthy entry for the component.
ProbeFailureContained ==
    (last.op = "run_health_checks" /\ last.exc = "none" /\ last.disk = "ok"
            /\ last.raised # {}) =>
        /\ ret.exc = "none"
        /\ \A c \in last.raised :
            /\ HasKey(ret.state.components, c)
            /\ ~GetItem(ret.state.components, c).healthy

(***************************************************************************)
(* Repeated cycles in a fixed environment.  The state file holds any state *)
(* (it is read from disk: any level, locked or not, any stored entries),   *)
(* the environment answers every cycle the same way (fnIn.inp) and the     *)
(* disk accepts every write.                                               *)
(***************************************************************************)
\* A stored entry of component c: "H" healthy, "U" unhealthy, "A" unhealthy with
\* a failed recovery recorded.
Stored(c, kind) ==
    [HealthStatus(kind = "H", c, IF kind = "H" THEN "healthy" ELSE "error", Dt(0))
        EXCEPT !.recovery_attempted = (kind = "A")]

\* Component maps a state file can hold: none or failed entries for the three
\* components every cycle probes, and any entry or none for beads_daemon.
StoredComponents ==
    {(IF probed THEN [i \in 1..3 |-> [key |-> Components[i],
                                      val |-> Stored(Components[i], "A")]]
      ELSE <<>>) \o
     (IF daemon = "none" THEN <<>>
      ELSE <<[key |-> "beads_daemon", val |-> Stored("beads_daemon", daemon)]>>) :
        probed \in BOOLEAN, daemon \in {"none", "H", "U", "A"}}

StoredStates ==
    {[SystemState(level, Dt(0)) EXCEPT
            !.components = components,
            !.locked = locked,
            !.lock_reason = IF locked THEN "maintenance" ELSE ""] :
        level \in DegradationLevel, locked \in BOOLEAN,
        components \in StoredComponents}

InitCycle ==
    /\ \E state \in StoredStates, inp \in Inputs :
        /\ file = FileOf(state)
        /\ fnIn = [fn |-> "cycle", state |-> state, feature |-> "", inp |-> inp]
    /\ now = 1
    /\ ret = NoRet
    /\ last = NoLast
    /\ attempts = NoAttempts
    /\ fnOut = Unused
    /\ procs = NoProcs

RunFixedCycle ==
    /\ now < MaxClock
    /\ fnIn.fn = "cycle"
    /\ \E r \in {run_health_checks(file, Dt(now), fnIn.inp, "ok")} :
        /\ file' = r.file
        /\ ret' = [exc |-> r.exc, state |-> r.state, value |-> FALSE]
        /\ last' = [Loaded("run_health_checks", file, Dt(now), "ok") EXCEPT
                        !.daemon = fnIn.inp.daemon]
        /\ attempts' = Counted(attempts, r)
    /\ now' = now + 1
    /\ UNCHANGED <<fnIn, fnOut, procs>>

SpecCycle == InitCycle /\ [][RunFixedCycle]_vars

\* C3: with the same probe results and recovery outcomes on every call, whatever
\* state the file held at first, every call of run_health_checks after the first
\* leaves the persisted level, transition_reason and last_transition unchanged:
\* the first call reaches the fixed point.
FixedPointAfterFirstCall ==
    [][(CycleStep /\ last.op = "run_health_checks") =>
            /\ Valid(file')
            /\ Persisted(file').level = Persisted(file).level
            /\ Persisted(file').transition_reason = Persisted(file).transition_reason
            /\ Persisted(file').last_transition = Persisted(file).last_transition]_vars

\* Two calls are done; the first one moved the level away from the stored one, and
\* every call runs the recovery of git with a healthy re-check.
ConvergedAfterChange ==
    /\ fnIn.fn = "cycle"
    /\ now >= 3
    /\ last.op = "run_health_checks"
    /\ Persisted(file).level # fnIn.state.level
    /\ Persisted(file).level < SAFE
    /\ fnIn.inp.out["git"] = "R"
    /\ fnIn.inp.out["config"] = "S"

(***************************************************************************)
(* The pure functions applied to inputs drawn from bounded sets:           *)
(* compute_degradation_level, is_feature_available over a persisted level, *)
(* and _serialize_state followed by _deserialize_state.                    *)
(***************************************************************************)
\* Longest component map of a serialized state.
MaxComponents == 2

\* The four components with rules and one without.
Named == <<"config", "git", "task_tracker", "beads_daemon", "custom">>

\* Every map over Named in which a component is absent, healthy or unhealthy.
HealthMaps ==
    {LET present == SelectSeq(Named, LAMBDA c : m[c] # "none")
     IN  [i \in DOMAIN present |->
            [key |-> present[i], val |-> Stored(present[i], m[present[i]])]] :
        m \in [{Named[i] : i \in DOMAIN Named} -> {"none", "H", "U"}]}

\* Every HealthStatus of a small alphabet, under any of three keys; the component
\* field need not repeat the key.
Entries ==
    {[key |-> key,
      val |-> [healthy |-> healthy, component |-> IF renamed THEN "custom" ELSE key,
               message |-> IF healthy THEN "healthy" ELSE "error",
               last_check |-> Dt(t),
               recovery_attempted |-> flags[1], recovery_succeeded |-> flags[2]]] :
        key \in {"git", "config", "custom"}, renamed \in BOOLEAN,
        healthy \in BOOLEAN, t \in {0, 1},
        flags \in {<<FALSE, FALSE>>, <<TRUE, FALSE>>, <<TRUE, TRUE>>}}

\* The place of a key among the keys of Entries.
KeyRank(key) == CASE key = "git" -> 1 [] key = "config" -> 2 [] OTHER -> 3

\* dicts of at most MaxComponents entries: no key twice, and one insertion order
\* for each set of items (dict equality does not look at the order).
Dicts ==
    {d \in UNION {[1..n -> Entries] : n \in 0..MaxComponents} :
        \A i, j \in DOMAIN d : i < j => KeyRank(d[i].key) < KeyRank(d[j].key)}

AnyStates ==
    {[level |-> level, components |-> components, last_transition |-> Dt(t),
      transition_reason |->
          IF t = 0 THEN NoReason ELSE [text |-> "Issues with", names |-> <<"git">>],
      locked |-> locked,
      lock_reason |-> IF locked THEN "maintenance" ELSE ""] :
        level \in DegradationLevel, components \in Dicts, t \in {0, 1},
        locked \in BOOLEAN}

FnInputs ==
    {[fn |-> "compute", state |-> [NoState EXCEPT !.components = components],
      feature |-> "", inp |-> FailedInput] : components \in HealthMaps}
    \cup
    {[fn |-> "feature",
      state |-> [SystemState(level, Dt(0)) EXCEPT
                    !.locked = locked,
                    !.lock_reason = IF locked THEN "maintenance" ELSE ""],
      feature |-> feature, inp |-> FailedInput] :
        level \in DegradationLevel, locked \in BOOLEAN, feature \in Features}
    \cup
    {[fn |-> "roundtrip", state |-> state, feature |-> "", inp |-> FailedInput] :
        state \in AnyStates}

InitFn ==
    /\ fnIn \in FnInputs
    /\ file = IF fnIn.fn = "feature" THEN FileOf(fnIn.state) ELSE Absent
    /\ now = 1
    /\ ret = NoRet
    /\ last = NoLast
    /\ attempts = NoAttempts
    /\ fnOut = Unused
    /\ procs = NoProcs

ApplyCompute ==
    /\ fnIn.fn = "compute" /\ fnOut.fn = "none"
    /\ fnOut' = [Unused EXCEPT !.fn = "compute",
                    !.level = compute_degradation_level(fnIn.state.components)]
    /\ UNCHANGED <<file, now, ret, last, attempts, fnIn, procs>>

ApplyFeature ==
    /\ fnIn.fn = "feature" /\ fnOut.fn = "none"
    /\ \E r \in {is_feature_available(file, Dt(now), fnIn.feature)} :
        fnOut' = [Unused EXCEPT !.fn = "feature", !.exc = r.exc, !.value = r.value]
    /\ UNCHANGED <<file, now, ret, last, attempts, fnIn, procs>>

ApplyRoundtrip ==
    /\ fnIn.fn = "roundtrip" /\ fnOut.fn = "none"
    /\ \E data \in {_serialize_state(fnIn.state)} :
        fnOut' = IF DeserializeError(data) # "none"
                 THEN [Unused EXCEPT !.fn = "roundtrip", !.data = data,
                                     !.exc = DeserializeError(data)]
                 ELSE [Unused EXCEPT !.fn = "roundtrip", !.data = data,
                          !.state = _deserialize_state(data),
                          !.again = _serialize_state(_deserialize_state(data))]
    /\ UNCHANGED <<file, now, ret, last, attempts, fnIn, procs>>

NextFn == ApplyCompute \/ ApplyFeature \/ ApplyRoundtrip

SpecFn == InitFn /\ [][NextFn]_vars

\* The component names of the unhealthy entries of a map.
UnhealthyNames(components) ==
    {components[i].val.component :
        i \in {j \in DOMAIN components : ~components[j].val.healthy}}

\* C2: the level computed from a component map depends on the set of unhealthy
\* component names alone, in this order: none unhealthy gives FULL; git unhealthy
\* gives SAFE; else config unhealthy gives MANUAL; else task_tracker or
\* beads_daemon unhealthy gives REDUCED; else (only components without a rule
\* unhealthy) FULL.  The empty map gives FULL, and config and task_tracker
\* unhealthy with git healthy give MANUAL.
LevelByPriority ==
    fnOut.fn = "compute" =>
        LET names == UnhealthyNames(fnIn.state.components)
        IN  /\ names = {} => fnOut.level = FULL
            /\ "git" \in names => fnOut.level = SAFE
            /\ ("git" \notin names /\ "config" \in names) => fnOut.level = MANUAL
            /\ (names \cap {"git", "config"} = {}
                    /\ names \cap {"task_tracker", "beads_daemon"} # {}) =>
                fnOut.level = REDUCED
            /\ names \cap {"git", "config", "task_tracker", "beads_daemon"} = {} =>
                fnOut.level = FULL
            /\ fnIn.state.components = <<>> => fnOut.level = FULL
            /\ (names = {"config", "task_tracker"}
                    /\ HasKey(fnIn.state.components, "git")) => fnOut.level = MANUAL

\* config and task_tracker are unhealthy, git is healthy, and the level is MANUAL.
ConfigDominatesTracker ==
    /\ fnOut.fn = "compute"
    /\ UnhealthyNames(fnIn.state.components) = {"config", "task_tracker"}
    /\ HasKey(fnIn.state.components, "git")
    /\ fnOut.level = MANUAL

\* The last level at which the claim has feature available.
Threshold(feature) ==
    CASE feature \in {"task_tracking", "adversarial_review", "auto_sync"} -> REDUCED
      [] feature \in {"pre_commit_checks", "trace_markers"} -> MANUAL
      [] feature = "git_operations" -> SAFE
      [] OTHER -> FULL

\* C7: is_feature_available(f) is true exactly when the persisted level is at most
\* the threshold of f (REDUCED, MANUAL or SAFE by the table, FULL for a name the
\* table lacks); so a feature available at a level is available at every less
\* strict level.
FeatureGating ==
    /\ fnOut.fn = "feature" =>
        /\ fnOut.exc = "none"
        /\ fnOut.value <=> (Persisted(file).level <= Threshold(fnIn.feature))
        /\ (fnIn.feature = "unknown_feature") =>
                (fnOut.value <=> Persisted(file).level = FULL)
    /\ \A feature \in Features : \A l1, l2 \in DegradationLevel :
        (l1 <= l2 /\ FeatureAvailableAt(l2, feature)) => FeatureAvailableAt(l1, feature)

\* git_operations was asked for at its threshold SAFE and found available.
GitOperationsAtTheEdge ==
    /\ fnOut.fn = "feature"
    /\ fnIn.feature = "git_operations"
    /\ Persisted(file).level = SAFE
    /\ fnOut.value

\* C8: for every SystemState s, _deserialize_state(_serialize_state(s)) raises
\* nothing and equals s field by field, and serializing the result again gives
\* the dictionary of the first serialization.
SerializationRoundtrip ==
    fnOut.fn = "roundtrip" =>
        /\ fnOut.exc = "none"
        /\ fnOut.state.level = fnIn.state.level
        /\ fnOut.state.components = fnIn.state.components
        /\ fnOut.state.last_transition = fnIn.state.last_transition
        /\ fnOut.state.transition_reason = fnIn.state.transition_reason
        /\ fnOut.state.locked = fnIn.state.locked
        /\ fnOut.state.lock_reason = fnIn.state.lock_reason
        /\ fnOut.again = fnOut.data

\* A locked RECOVERY state with a sub-second timestamp and an entry that records
\* a successful recovery went through the round trip.
RoundtripOfRichState ==
    /\ fnOut.fn = "roundtrip"
    /\ fnIn.state.level = RECOVERY
    /\ fnIn.state.locked
    /\ fnIn.state.last_transition.micro # 0
    /\ Len(fnIn.state.components) = 2
    /\ fnIn.state.components[1].val.recovery_succeeded
    /\ fnIn.state.components[2].val.last_check.micro # 0
    /\ fnOut.state = fnIn.state

(***************************************************************************)
(* Two concurrent invocations of run_health_checks on one state file, then *)
(* one uncontended invocation.  load_state reads the file in one step;     *)
(* save_state opens it for writing, which empties it (line 88), and writes *)
(* the new content in a later step (line 89).  The environment answers     *)
(* every invocation the same way (fnIn.inp).                               *)
(***************************************************************************)
Procs == {"A", "B"}

\* The environments of the race: no daemon probe.
RaceInputs == {i \in Inputs : ~i.daemon /\ i.out["beads_daemon"] = "U"}

\* A file opened for writing and not yet written: empty, not JSON.
Emptied == [exists |-> TRUE, json |-> "invalid", data |-> NoData]

InitRace ==
    /\ \E state \in StoredStates, inp \in RaceInputs :
        /\ file = FileOf(state)
        /\ fnIn = [fn |-> "race", state |-> state, feature |-> "", inp |-> inp]
    /\ now = 1
    /\ ret = NoRet
    /\ last = NoLast
    /\ attempts = NoAttempts
    /\ fnOut = Unused
    /\ procs = [p \in Procs |-> [at |-> "load", state |-> NoState]]

\* Lines 387-438 of invocation p: load_state, the probes, the recovery and the
\* transition, all on the state in memory.
RaceLoad(p) ==
    /\ procs[p].at = "load"
    /\ \E r \in {run_health_checks(file, Dt(now), fnIn.inp, "ok")} :
        procs' = [procs EXCEPT ![p] = [at |-> "open", state |-> r.state]]
    /\ last' = [NoLast EXCEPT !.op = "race"]
    /\ now' = now + 1
    /\ UNCHANGED <<file, ret, attempts, fnIn, fnOut>>

\* Line 88 of invocation p: open(state_file, "w") empties the file.
RaceOpen(p) ==
    /\ procs[p].at = "open"
    /\ file' = Emptied
    /\ procs' = [procs EXCEPT ![p].at = "dump"]
    /\ last' = [NoLast EXCEPT !.op = "race"]
    /\ UNCHANGED <<now, ret, attempts, fnIn, fnOut>>

\* Line 89 of invocation p: json.dump and close write the content from offset 0.
\* If the other invocation has written since p opened the file, what is left
\* behind p's bytes is the other's: the file holds p's state, or not JSON.
RaceDump(p) ==
    /\ procs[p].at = "dump"
    /\ \/ file' = FileOf(procs[p].state)
       \/ file # Emptied /\ file' = Emptied
    /\ procs' = [procs EXCEPT ![p].at = "done"]
    /\ last' = [NoLast EXCEPT !.op = "race"]
    /\ UNCHANGED <<now, ret, attempts, fnIn, fnOut>>

\* Both invocations are over: one more invocation runs alone.
Settle ==
    /\ fnIn.fn = "race"
    /\ \A p \in Procs : procs[p].at = "done"
    /\ last.op = "race"
    /\ \E r \in {run_health_checks(file, Dt(now), fnIn.inp, "ok")} :
        /\ file' = r.file
        /\ ret' = [exc |-> r.exc, state |-> r.state, value |-> FALSE]
    /\ last' = [Loaded("settle", file, Dt(now), "ok") EXCEPT !.daemon = fnIn.inp.daemon]
    /\ now' = now + 1
    /\ UNCHANGED <<attempts, fnIn, fnOut, procs>>

NextRace ==
    \/ \E p \in Procs : RaceLoad(p)
    \/ \E p \in Procs : RaceOpen(p)
    \/ \E p \in Procs : RaceDump(p)
    \/ Settle

SpecRace == InitRace /\ [][NextRace]_vars

\* The state after n invocations of run_health_checks one after the other.
RECURSIVE Sequential(_, _, _, _)
Sequential(f, t, inp, n) ==
    IF n = 0 THEN Persisted(f)
    ELSE Sequential(run_health_checks(f, Dt(t), inp, "ok").file, t + 1, inp, n - 1)

\* C12: after two concurrent invocations, in any interleaving of their steps, and
\* one more invocation alone, the persisted level is the level three invocations
\* one after the other leave.
RaceSettlesAsSequential ==
    last.op = "settle" =>
        /\ Valid(file)
        /\ Persisted(file).level =
                Sequential(FileOf(fnIn.state), 1, fnIn.inp, 3).level

(***************************************************************************)
(* plan_validation.py.  A task is [id, blockedBy, blocks, criteria,        *)
(* mentions]: blockedBy and blocks are the sets of ids its two lists name, *)
(* criteria tells whether its description matches one of the criteria      *)
(* patterns, mentions is the set of spec ids its title and description     *)
(* contain.  order is the order in which a Python set is iterated.         *)
(***************************************************************************)
\* Most tasks of a generated task list.
MaxTasks == 3

\* task_ids = {task.get("id") for task in tasks}
TaskIds(tasks) == {tasks[i].id : i \in DOMAIN tasks}

\* The elements of set S in the order of sequence order.
InOrder(S, order) == SelectSeq(order, LAMBDA x : x \in S)

\* Lines 203-220: graph[task_id], the ids of blockedBy that are tasks and not
\* the task itself, over all the tasks of that id.
Graph(tasks) ==
    [id \in TaskIds(tasks) |->
        UNION {(tasks[i].blockedBy \cap TaskIds(tasks)) \ {id} :
                  i \in {j \in DOMAIN tasks : tasks[j].id = id}}]

\* The keys of graph in insertion order: the ids in the order of their first task.
GraphKeys(tasks) ==
    LET ids == [i \in DOMAIN tasks |-> tasks[i].id]
    IN  [i \in 1..Cardinality(TaskIds(tasks)) |->
            ids[CHOOSE k \in DOMAIN tasks :
                    /\ \A j \in 1..(k - 1) : ids[j] # ids[k]
                    /\ Cardinality({ids[j] : j \in 1..k}) = i]]

\* A self-reference looked for in blockedBy alone.
SelfBlockedByOnly(tasks) == \E i \in DOMAIN tasks : tasks[i].id \in tasks[i].blockedBy

\* Lines 213-228: some blockedBy or blocks list names its own task.
SelfReference(tasks) ==
    \E i \in DOMAIN tasks : tasks[i].id \in tasks[i].blockedBy \cup tasks[i].blocks

\* Missing references looked for in blockedBy alone.
MissingBlockedByOnly(tasks) ==
    UNION {tasks[i].blockedBy \ TaskIds(tasks) : i \in DOMAIN tasks}

\* Lines 217-218 and 227-228: the ids named that are no task's id.
MissingRefs(tasks) ==
    UNION {(tasks[i].blockedBy \cup tasks[i].blocks) \ TaskIds(tasks) : i \in DOMAIN tasks}

\* has_cycle_from with the sets visited and path it mutates given back; the
\* neighbours still to visit are todo.
RECURSIVE has_cycle_from(_, _, _, _, _)
RECURSIVE VisitNeighbors(_, _, _, _, _)
has_cycle_from(graph, order, start, visited, path) ==
    IF start \in path THEN [found |-> TRUE, visited |-> visited, path |-> path]
    ELSE IF start \in visited THEN [found |-> FALSE, visited |-> visited, path |-> path]
    ELSE
        LET r == VisitNeighbors(graph, order, InOrder(graph[start], order),
                                visited \cup {start}, path \cup {start})
        IN  IF r.found THEN r
            ELSE [found |-> FALSE, visited |-> r.visited, path |-> r.path \ {start}]

VisitNeighbors(graph, order, todo, visited, path) ==
    IF todo = <<>> THEN [found |-> FALSE, visited |-> visited, path |-> path]
    ELSE
        LET r == has_cycle_from(graph, order, Head(todo), visited, path)
        IN  IF r.found THEN r
            ELSE VisitNeighbors(graph, order, Tail(todo), r.visited, r.path)

\* Lines 248-252: the loop over the keys of graph, visited shared, path fresh.
RECURSIVE DetectCycles(_, _, _, _)
DetectCycles(graph, order, keys, visited) ==
    IF keys = <<>> THEN FALSE
    ELSE
        LET r == has_cycle_from(graph, order, Head(keys), visited, {})
        IN  IF r.found THEN TRUE
            ELSE DetectCycles(graph, order, Tail(keys), r.visited)

\* A search that keeps no recursion path: a visited node met again is a cycle.
CyclesByVisitedOnly(tasks, order) ==
    LET graph == Graph(tasks)
    IN  \/ SelfReference(tasks)
        \/ \E a, b, c \in DOMAIN graph : a # b /\ c \in graph[a] \cap graph[b]
        \/ DetectCycles(graph, order, GraphKeys(tasks), {})

HasCycles(tasks, order) ==
    \/ SelfReference(tasks)
    \/ DetectCycles(Graph(tasks), order, GraphKeys(tasks), {})

check_dependencies(tasks, order) ==
    LET has_cycles == HasCycles(tasks, order)
        missing_refs == MissingRefs(tasks)
    IN  [is_valid |-> ~has_cycles /\ missing_refs = {},
         has_cycles |-> has_cycles,
         missing_refs |-> missing_refs]

\* Task ids, and an id no task has.
Pool == <<"t1", "t2", "t3", "t4", "t5">>

Ghost == "ghost"

\* The two iteration orders of a set of ids: rising and falling.
Orders ==
    {Pool \o <<Ghost>>,
     [i \in 1..(Len(Pool) + 1) |-> (<<Ghost>> \o Pool)[Len(Pool) + 2 - i]]}

Task(id, blockedBy, blocks) ==
    [id |-> id, blockedBy |-> blockedBy, blocks |-> blocks,
     criteria |-> TRUE, mentions |-> {}]

\* What one task, at, names beyond the blockedBy relations among the tasks.
Extras(n) ==
    {[at |-> 0, kind |-> "none"]} \cup
    {[at |-> at, kind |-> kind] :
        at \in {1, n} \cap 1..n,
        kind \in {"blockedBy_ghost", "blocks_self", "blocks_ghost", "blocks_next"}}

\* tasks with extra applied; "twin" gives the last task the id of the first.
WithExtra(tasks, extra) ==
    LET n == Len(tasks)
    IN  [i \in 1..n |->
            IF extra.kind = "twin" /\ i = n /\ n > 1
            THEN [tasks[i] EXCEPT !.id = tasks[1].id]
            ELSE IF i # extra.at THEN tasks[i]
            ELSE CASE extra.kind = "blockedBy_ghost" ->
                        [tasks[i] EXCEPT !.blockedBy = @ \cup {Ghost}]
                   [] extra.kind = "blocks_self" -> [tasks[i] EXCEPT !.blocks = {tasks[i].id}]
                   [] extra.kind = "blocks_ghost" -> [tasks[i] EXCEPT !.blocks = {Ghost}]
                   [] extra.kind = "blocks_next" ->
                        [tasks[i] EXCEPT !.blocks = {tasks[(i % n) + 1].id}]
                   [] OTHER -> tasks[i]]

\* Every list of n tasks t1..tn with any blockedBy relation among them.
Relations(n) ==
    {[i \in 1..n |-> Task(Pool[i], {Pool[j] : j \in rel[i]}, {})] :
        rel \in [1..n -> SUBSET (1..n)]}

\* A blockedBy B and C; B and C both blockedBy D; and the chain t1 .. t4.
Diamond ==
    <<Task("t1", {"t2", "t3"}, {}), Task("t2", {"t4"}, {}),
      Task("t3", {"t4"}, {}), Task("t4", {}, {})>>

Chain ==
    <<Task("t1", {}, {}), Task("t2", {"t1"}, {}),
      Task("t3", {"t2"}, {}), Task("t4", {"t3"}, {})>>

Reversed(s) == [i \in 1..Len(s) |-> s[Len(s) + 1 - i]]

\* check_requirement_coverage: per spec, is_covered and the first covering task.
check_requirement_coverage(specs, tasks) ==
    [s \in DOMAIN specs |->
        LET covering == {i \in DOMAIN tasks : specs[s] \in tasks[i].mentions}
        IN  [spec_id |-> specs[s],
             is_covered |-> covering # {},
             task_id |-> IF covering = {} THEN "None"
                         ELSE tasks[CHOOSE i \in covering : \A j \in covering : i <= j].id]]

\* check_task_completeness: per task, whether a criteria pattern matched.
check_task_completeness(tasks) ==
    [i \in DOMAIN tasks |-> [task_id |-> tasks[i].id, has_criteria |-> tasks[i].criteria]]

\* A status that lets warnings outrank errors.
StatusWarnFirst(errors, warnings) ==
    IF warnings # <<>> THEN "WARN" ELSE IF errors # <<>> THEN "FAIL" ELSE "PASS"

\* Lines 301-307.
Status(errors, warnings) ==
    IF errors # <<>> THEN "FAIL" ELSE IF warnings # <<>> THEN "WARN" ELSE "PASS"

validate_plan(specs, tasks, order) ==
    LET coverage == check_requirement_coverage(specs, tasks)
        orphan_specs == SelectSeq(coverage, LAMBDA c : ~c.is_covered)
        completeness == check_task_completeness(tasks)
        incomplete_tasks == SelectSeq(completeness, LAMBDA t : ~t.has_criteria)
        warnings ==
            [i \in DOMAIN orphan_specs |->
                [text |-> "has no implementing task", id |-> orphan_specs[i].spec_id]]
            \o [i \in DOMAIN incomplete_tasks |->
                [text |-> "missing verification criteria",
                 id |-> incomplete_tasks[i].task_id]]
        dependencies == check_dependencies(tasks, order)
        refs == InOrder(dependencies.missing_refs, order)
        errors ==
            (IF dependencies.has_cycles
             THEN <<[text |-> "Circular dependency detected", id |-> ""]>> ELSE <<>>)
            \o [i \in DOMAIN refs |->
                [text |-> "Reference to non-existent task", id |-> refs[i]]]
    IN  [status |-> Status(errors, warnings), coverage |-> coverage,
         completeness |-> completeness, dependencies |-> dependencies,
         warnings |-> warnings, errors |-> errors]

\* Most tasks of a generated plan.
MaxPlanTasks == 2

SpecIds == <<"SPEC-01.01", "SPEC-01.02">>

\* The spec lists: every sublist of SpecIds.
SpecLists == {InOrder(S, SpecIds) : S \in SUBSET {SpecIds[i] : i \in DOMAIN SpecIds}}

\* Every plan task list: each task blocked by nothing, itself, the next task or
\* an id no task has; with or without criteria; mentioning any of the spec ids.
PlanTasks ==
    UNION {{[i \in 1..n |->
                [id |-> Pool[i],
                 blockedBy |-> CASE t[i].dep = "self" -> {Pool[i]}
                                 [] t[i].dep = "next" -> {Pool[(i % n) + 1]}
                                 [] t[i].dep = "ghost" -> {Ghost}
                                 [] OTHER -> {},
                 blocks |-> {},
                 criteria |-> t[i].criteria,
                 mentions |-> t[i].mentions]] :
            t \in [1..n -> [dep : {"none", "self", "next", "ghost"},
                            criteria : BOOLEAN,
                            mentions : SUBSET {SpecIds[i] : i \in DOMAIN SpecIds}]]} :
        n \in 0..MaxPlanTasks}

NoDeps == [is_valid |-> TRUE, has_cycles |-> FALSE, missing_refs |-> {}]

\* fnOut before a function of plan_validation is applied.
NoPlan ==
    [fn |-> "none", dependencies |-> NoDeps, status |-> "PASS",
     warnings |-> <<>>, errors |-> <<>>]

InitPlan ==
    /\ \/ \E n \in 0..MaxTasks :
            \E base \in Relations(n),
               extra \in Extras(n) \cup {[at |-> 0, kind |-> "twin"]},
               order \in Orders :
                fnIn = [fn |-> "check_dependencies", tasks |-> WithExtra(base, extra),
                        specs |-> <<>>, order |-> order]
       \/ \E base \in {Diamond, Reversed(Diamond), Chain, Reversed(Chain)},
             extra \in Extras(4), order \in Orders :
                fnIn = [fn |-> "check_dependencies", tasks |-> WithExtra(base, extra),
                        specs |-> <<>>, order |-> order]
       \/ \E tasks \in PlanTasks, specs \in SpecLists :
                fnIn = [fn |-> "validate_plan", tasks |-> tasks, specs |-> specs,
                        order |-> Pool \o <<Ghost>>]
    /\ fnOut = NoPlan
    /\ file = Absent
    /\ now = 0
    /\ ret = NoRet
    /\ last = NoLast
    /\ attempts = NoAttempts
    /\ procs = NoProcs

ApplyCheckDependencies ==
    /\ fnIn.fn = "check_dependencies" /\ fnOut.fn = "none"
    /\ fnOut' = [NoPlan EXCEPT !.fn = "check_dependencies",
                    !.dependencies = check_dependencies(fnIn.tasks, fnIn.order)]
    /\ UNCHANGED <<file, now, ret, last, attempts, fnIn, procs>>

ApplyValidatePlan ==
    /\ fnIn.fn = "validate_plan" /\ fnOut.fn = "none"
    /\ \E r \in {validate_plan(fnIn.specs, fnIn.tasks, fnIn.order)} :
        fnOut' = [fn |-> "validate_plan", dependencies |-> r.dependencies,
                  status |-> r.status, warnings |-> r.warnings, errors |-> r.errors]
    /\ UNCHANGED <<file, now, ret, last, attempts, fnIn, procs>>

NextPlan == ApplyCheckDependencies \/ ApplyValidatePlan

SpecPlan == InitPlan /\ [][NextPlan]_vars

\* The edges from each task id to the ids its blockedBy lists name.
BlockedByEdges(tasks) ==
    UNION {{<<tasks[i].id, d>> : d \in tasks[i].blockedBy} : i \in DOMAIN tasks}

\* The pairs joined by a path of one or more edges of R.
RECURSIVE Paths(_)
Paths(R) ==
    LET joined == R \cup {p \in {<<e[1], f[2]>> : e \in R, f \in R} :
                            \E e \in R, f \in R : e[2] = f[1] /\ p = <<e[1], f[2]>>}
    IN  IF joined = R THEN R ELSE Paths(joined)

\* The blockedBy graph has a cycle.
Cyclic(tasks) == \E p \in Paths(BlockedByEdges(tasks)) : p[1] = p[2]

\* Some task's blocks list names the task itself.
BlocksItself(tasks) == \E i \in DOMAIN tasks : tasks[i].id \in tasks[i].blocks

\* C13 as claimed: has_cycles is true exactly when the blockedBy graph has a cycle,
\* whatever the blocks lists contain.
CyclesIffBlockedByCycle ==
    fnOut.fn = "check_dependencies" =>
        (fnOut.dependencies.has_cycles <=> Cyclic(fnIn.tasks))

\* C13 as amended: has_cycles is true exactly when the blockedBy graph has a cycle
\* or some task's blocks list names the task itself; so an acyclic diamond or chain
\* is not flagged unless a blocks list names its own task.
CyclesIffCycleOrBlocksItself ==
    fnOut.fn = "check_dependencies" =>
        (fnOut.dependencies.has_cycles <=>
            (Cyclic(fnIn.tasks) \/ BlocksItself(fnIn.tasks)))

\* The diamond, A first, with a blocks list that names another task, was checked
\* and not flagged.
DiamondNotFlagged ==
    /\ fnOut.fn = "check_dependencies"
    /\ Len(fnIn.tasks) = 4
    /\ fnIn.tasks[1].blockedBy = {"t2", "t3"}
    /\ fnIn.tasks[1].blocks = {"t2"}
    /\ fnIn.tasks[2].blockedBy = {"t4"}
    /\ fnIn.tasks[3].blockedBy = {"t4"}
    /\ ~fnOut.dependencies.has_cycles

\* C14: if a task's blockedBy list or blocks list names the task itself,
\* has_cycles is true and is_valid is false, whatever the other tasks are.
SelfReferenceFlagged ==
    (fnOut.fn = "check_dependencies"
        /\ \E i \in DOMAIN fnIn.tasks :
            fnIn.tasks[i].id \in fnIn.tasks[i].blockedBy \cup fnIn.tasks[i].blocks) =>
        /\ fnOut.dependencies.has_cycles
        /\ ~fnOut.dependencies.is_valid

\* The last of three tasks names itself in blocks; nothing else is wrong.
BlocksSelfAmongOthers ==
    /\ fnOut.fn = "check_dependencies"
    /\ Len(fnIn.tasks) = 3
    /\ fnIn.tasks[3].blocks = {fnIn.tasks[3].id}
    /\ ~Cyclic(fnIn.tasks)
    /\ fnOut.dependencies.missing_refs = {}
    /\ fnOut.dependencies.has_cycles

\* The ids named by some blockedBy or blocks list.
NamedIds(tasks) ==
    UNION {tasks[i].blockedBy \cup tasks[i].blocks : i \in DOMAIN tasks}

\* C15: is_valid is true exactly when has_cycles is false and every id named in a
\* blockedBy or blocks list is the id of a task; missing_refs is the set of the
\* named ids that are no task's id; and when the only fault is a missing
\* reference, has_cycles is false.
ValidIffNoCyclesNoMissing ==
    fnOut.fn = "check_dependencies" =>
        LET ids == {fnIn.tasks[i].id : i \in DOMAIN fnIn.tasks}
            r == fnOut.dependencies
        IN  /\ r.is_valid <=> (~r.has_cycles /\ NamedIds(fnIn.tasks) \subseteq ids)
            /\ r.missing_refs = NamedIds(fnIn.tasks) \ ids
            /\ (~Cyclic(fnIn.tasks) /\ ~BlocksItself(fnIn.tasks)) => ~r.has_cycles

\* A blocks list names an id no task has, and that is the only fault.
MissingAlone ==
    /\ fnOut.fn = "check_dependencies"
    /\ \E i \in DOMAIN fnIn.tasks : fnIn.tasks[i].blocks = {Ghost}
    /\ fnOut.dependencies.missing_refs = {Ghost}
    /\ ~fnOut.dependencies.has_cycles
    /\ ~fnOut.dependencies.is_valid

\* C16: the status is FAIL exactly when check_dependencies finds a cycle or a
\* missing reference; otherwise WARN exactly when a spec is uncovered or a task has
\* no criteria; otherwise PASS.  There is an error exactly when there is a cycle or
\* a missing reference, a warning exactly when a spec is uncovered or a task has no
\* criteria; the empty plan is PASS.
StatusByErrorsThenWarnings ==
    fnOut.fn = "validate_plan" =>
        LET tasks == fnIn.tasks
            deps == fnOut.dependencies
            broken == Cyclic(tasks) \/ BlocksItself(tasks)
                        \/ ~(NamedIds(tasks) \subseteq {tasks[i].id : i \in DOMAIN tasks})
            uncovered == \E s \in DOMAIN fnIn.specs :
                            \A i \in DOMAIN tasks : fnIn.specs[s] \notin tasks[i].mentions
            bare == \E i \in DOMAIN tasks : ~tasks[i].criteria
        IN  /\ (deps.has_cycles \/ deps.missing_refs # {}) <=> broken
            /\ fnOut.status = "FAIL" <=> broken
            /\ fnOut.status = "WARN" <=> (~broken /\ (uncovered \/ bare))
            /\ fnOut.status = "PASS" <=> (~broken /\ ~uncovered /\ ~bare)
            /\ fnOut.errors # <<>> <=> broken
            /\ fnOut.warnings # <<>> <=> (uncovered \/ bare)
            /\ (tasks = <<>> /\ fnIn.specs = <<>>) => fnOut.status = "PASS"

\* A plan with a missing reference, an uncovered spec and a task without criteria
\* is FAIL, and carries its warnings as well.
FailOutranksWarn ==
    /\ fnOut.fn = "validate_plan"
    /\ fnOut.status = "FAIL"
    /\ fnOut.dependencies.missing_refs # {}
    /\ ~fnOut.dependencies.has_cycles
    /\ Len(fnOut.warnings) >= 2

\* ---------------------------------------------------------------------------
\* verification.py: detect_stub, line by line
\* ---------------------------------------------------------------------------

\* Longest file, in lines.
MaxFileLines == 3

\* What the expressions of detect_stub find in one line: its stripped length,
\* whether it is a comment, whether the definition pattern matches, whether it
\* holds a return (bare, or with an expression on the line), the tokens the tests
\* look for, and the number of stub patterns that match.
Fact(chars, comment, definition, returns, expr, words, stubs) ==
    [chars |-> chars, comment |-> comment, definition |-> definition,
     returns |-> returns, expr |-> expr, words |-> words, stubs |-> stubs]

LineFacts ==
    ("" :> Fact(0, FALSE, FALSE, "no", "", {}, 0))
    @@ ("# TODO: implement" :> Fact(17, TRUE, FALSE, "no", "", {"todo"}, 1))
    @@ ("pass" :> Fact(4, FALSE, FALSE, "no", "", {"pass"}, 1))
    @@ ("x = 1" :> Fact(5, FALSE, FALSE, "no", "", {}, 0))
    @@ ("def f(x):" :> Fact(9, FALSE, TRUE, "no", "", {}, 0))
    @@ ("return" :> Fact(6, FALSE, FALSE, "bare", "", {}, 0))
    @@ ("return None" :> Fact(11, FALSE, FALSE, "expr", "None", {}, 0))
    @@ ("return x + 1" :> Fact(12, FALSE, FALSE, "expr", "x + 1", {}, 0))
    @@ ("total = compute(a, b)" :> Fact(21, FALSE, FALSE, "no", "", {}, 0))
    @@ ("raise NotImplementedError" :>
            Fact(25, FALSE, FALSE, "no", "", {"NotImplemented"}, 1))

SourceLines == DOMAIN LineFacts

\* The lines that are neither blank nor comments.
CodeLines(lines) == SelectSeq(lines, LAMBDA l : l # "" /\ ~LineFacts[l].comment)

RECURSIVE SkipBlank(_)
SkipBlank(lines) ==
    IF lines # <<>> /\ Head(lines) = "" THEN SkipBlank(Tail(lines)) ELSE lines

\* re.findall(r"return\s+(.+)", content): the text after each return.  The
\* whitespace may run over line ends, so a bare return captures the next line that
\* is not blank, whole, and the search goes on after it.
RECURSIVE MeaningfulReturns(_)
MeaningfulReturns(lines) ==
    IF lines = <<>> THEN <<>>
    ELSE LET f == LineFacts[Head(lines)]
             rest == SkipBlank(Tail(lines))
         IN  IF f.returns = "expr"
             THEN <<[text |-> f.expr, words |-> {}]>> \o MeaningfulReturns(Tail(lines))
             ELSE IF f.returns = "bare"
             THEN IF rest = <<>> THEN <<>>
                  ELSE <<[text |-> Head(rest), words |-> LineFacts[Head(rest)].words]>>
                            \o MeaningfulReturns(Tail(rest))
             ELSE MeaningfulReturns(Tail(lines))

\* The test of one captured text.
IsMeaningful(r) ==
    /\ r.text \notin {"None", "pass", "...", ""}
    /\ r.words \cap {"NotImplemented", "todo", "placeholder"} = {}

RECURSIVE SumStubs(_)
SumStubs(lines) ==
    IF lines = <<>> THEN 0 ELSE LineFacts[Head(lines)].stubs + SumStubs(Tail(lines))

\* detect_stub on the text of a file: the verdict, and the rule that gave it.
StubText(lines, threshold_lines) ==
    LET code_lines == CodeLines(lines)
        has_definitions == \E i \in DOMAIN lines : LineFacts[lines[i]].definition
        has_return_statements == \E i \in DOMAIN lines : LineFacts[lines[i]].returns # "no"
        meaningful_returns == MeaningfulReturns(lines)
        has_meaningful_return ==
            \E i \in DOMAIN meaningful_returns : IsMeaningful(meaningful_returns[i])
        has_meaningful_content ==
            \E i \in DOMAIN code_lines :
                /\ LineFacts[code_lines[i]].chars > 15
                /\ LineFacts[code_lines[i]].words \cap {"todo", "pass"} = {}
        stub_count == SumStubs(lines)
        non_trivial_lines ==
            Cardinality({i \in DOMAIN code_lines : LineFacts[code_lines[i]].chars > 5})
        short == Len(code_lines) < threshold_lines
    IN  IF short /\ has_definitions /\ has_return_statements /\ has_meaningful_return
        THEN [value |-> FALSE, rule |-> "short_return"]
        ELSE IF short /\ ~has_meaningful_content
        THEN [value |-> TRUE, rule |-> "short_content"]
        ELSE IF non_trivial_lines > 0 /\ 10 * stub_count > 3 * non_trivial_lines
        THEN [value |-> TRUE, rule |-> "density"]
        ELSE [value |-> FALSE, rule |-> "default"]

\* The text of the two kinds of readable file.
FileText(kind) == IF kind = "stub" THEN <<"pass">> ELSE <<"def f(x):", "return x + 1">>

\* Every file of at most n lines.
RECURSIVE Files(_)
Files(n) ==
    IF n = 0 THEN {<<>>}
    ELSE Files(n - 1)
            \cup {Append(t, l) : t \in {x \in Files(n - 1) : Len(x) = n - 1},
                                 l \in SourceLines}

NoStub == [fn |-> "none", value |-> FALSE, rule |-> ""]

InitStub ==
    /\ \E lines \in Files(MaxFileLines), threshold_lines \in 1..(MaxFileLines + 1) :
            fnIn = [fn |-> "detect_stub", lines |-> lines,
                    threshold_lines |-> threshold_lines]
    /\ fnOut = NoStub
    /\ file = Absent
    /\ now = 0
    /\ ret = NoRet
    /\ last = NoLast
    /\ attempts = NoAttempts
    /\ procs = NoProcs

ApplyDetectStub ==
    /\ fnIn.fn = "detect_stub" /\ fnOut.fn = "none"
    /\ \E r \in {StubText(fnIn.lines, fnIn.threshold_lines)} :
        fnOut' = [fn |-> "detect_stub", value |-> r.value, rule |-> r.rule]
    /\ UNCHANGED <<file, now, ret, last, attempts, fnIn, procs>>

NextStub == ApplyDetectStub

SpecStub == InitStub /\ [][NextStub]_vars

\* ---------------------------------------------------------------------------
\* verification.py: goal-backward verification of a task
\* ---------------------------------------------------------------------------

\* Longest description, in lines.
MaxLines == 4

VERIFIED == "VERIFIED"
INCOMPLETE == "INCOMPLETE"
FAILED == "FAILED"

TruthResult(description, status) == [description |-> description, status |-> status]

ArtifactResult(path, exists, is_substantive, is_stub, line_count) ==
    [path |-> path, exists |-> exists, is_substantive |-> is_substantive,
     is_stub |-> is_stub, line_count |-> line_count, details |-> ""]

\* The files under project_root.  A path is missing, a regular file holding code
\* or a stub, a directory, a file the process may not open, or a file whose bytes
\* are not text.
ArtifactPaths == {"a.py", "b.py"}

FileKinds == {"missing", "code", "stub", "dir", "denied", "binary"}

FileSystems == [ArtifactPaths -> [kind : FileKinds, mtime : {1}]]

\* Path.exists and Path.is_file.
PathExists(fs, path) == fs[path].kind # "missing"

is_file(fs, path) == fs[path].kind \notin {"missing", "dir"}

\* A mutant of AfterRead: the read leaves a newer modification time.
AfterReadTouching(fs, path) == [fs EXCEPT ![path].mtime = @ + 1]

\* The file system after Path.read_text: the file is opened for reading only.
AfterRead(fs, path) == fs

\* Path.read_text: the text, or the exception of open or decode.
read_text(fs, path) ==
    LET kind == fs[path].kind
    IN  [exc |-> CASE kind = "missing" -> "FileNotFoundError"
                   [] kind = "dir" -> "IsADirectoryError"
                   [] kind = "denied" -> "PermissionError"
                   [] kind = "binary" -> "UnicodeDecodeError"
                   [] OTHER -> "none",
         text |-> kind,
         fs |-> IF kind \in {"code", "stub"} THEN AfterRead(fs, path) ELSE fs]

\* len(content.splitlines()) of the two texts.
LineCount(text) == Len(FileText(text))

detect_stub(fs, path) ==
    LET r == read_text(fs, path)
    IN  IF ~PathExists(fs, path) THEN [exc |-> "none", value |-> FALSE, fs |-> fs]
        ELSE [exc |-> r.exc,
              value |-> r.exc = "none" /\ StubText(FileText(r.text), 10).value,
              fs |-> r.fs]

NoArtifact == ArtifactResult("", FALSE, FALSE, FALSE, 0)

\* A mutant of check_artifact_exists: the flag of a missing file keeps its default.
ExistsKeepingDefault(fs, path) ==
    LET exists == PathExists(fs, path) /\ is_file(fs, path)
        r == read_text(fs, path)
    IN  IF ~exists
        THEN [exc |-> "none", result |-> ArtifactResult(path, FALSE, TRUE, FALSE, 0),
              fs |-> fs]
        ELSE IF r.exc # "none" THEN [exc |-> r.exc, result |-> NoArtifact, fs |-> r.fs]
        ELSE [exc |-> "none",
              result |-> ArtifactResult(path, TRUE, TRUE, FALSE, LineCount(r.text)),
              fs |-> r.fs]

check_artifact_exists(fs, path) ==
    LET exists == PathExists(fs, path) /\ is_file(fs, path)
        r == read_text(fs, path)
    IN  IF ~exists
        THEN [exc |-> "none", result |-> ArtifactResult(path, FALSE, FALSE, FALSE, 0),
              fs |-> fs]
        ELSE IF r.exc # "none" THEN [exc |-> r.exc, result |-> NoArtifact, fs |-> r.fs]
        ELSE [exc |-> "none",
              result |-> ArtifactResult(path, TRUE, TRUE, FALSE, LineCount(r.text)),
              fs |-> r.fs]

check_artifact_substance(fs, path) ==
    LET r == read_text(fs, path)
        d == detect_stub(r.fs, path)
    IN  IF ~PathExists(fs, path)
        THEN [exc |-> "none", result |-> ArtifactResult(path, FALSE, FALSE, FALSE, 0),
              fs |-> fs]
        ELSE IF r.exc # "none" THEN [exc |-> r.exc, result |-> NoArtifact, fs |-> r.fs]
        ELSE IF d.exc # "none" THEN [exc |-> d.exc, result |-> NoArtifact, fs |-> d.fs]
        ELSE [exc |-> "none",
              result |-> ArtifactResult(path, TRUE, ~d.value, d.value,
                                        LineCount(r.text)),
              fs |-> d.fs]

\* A description, line by line: a section header, a bullet "- item", a field
\* "truth: item", or other text.
Line(kind, item) == [kind |-> kind, item |-> item]

Lines ==
    {Line(kind, "") : kind \in {"acceptance", "success", "artifacts", "text"}}
        \cup {Line(kind, item) : kind \in {"bullet", "truth"}, item \in ArtifactPaths}

\* (?:\s*[-*]\s*.+\n?)+ : the items of the bullets that follow line i without a gap.
RECURSIVE BulletsFrom(_, _)
BulletsFrom(lines, i) ==
    IF i > Len(lines) \/ lines[i].kind # "bullet" THEN <<>>
    ELSE <<lines[i].item>> \o BulletsFrom(lines, i + 1)

\* re.search of a header followed by bullets: the bullets of the first header of
\* this kind that has one.
SectionBullets(lines, header) ==
    LET at == {i \in DOMAIN lines :
                /\ lines[i].kind = header
                /\ BulletsFrom(lines, i + 1) # <<>>}
    IN  IF at = {} THEN <<>>
        ELSE BulletsFrom(lines, (CHOOSE i \in at : \A j \in at : i <= j) + 1)

Members(s) == {s[i] : i \in DOMAIN s}

\* The Success Criteria loop: an item is appended unless already among the truths.
RECURSIVE AppendNew(_, _)
AppendNew(truths, items) ==
    IF items = <<>> THEN truths
    ELSE AppendNew(IF Head(items) \in Members(truths) THEN truths
                   ELSE Append(truths, Head(items)),
                   Tail(items))

\* re.findall of the truth: fields, in the order of the description.
RECURSIVE TruthFields(_)
TruthFields(lines) ==
    IF lines = <<>> THEN <<>>
    ELSE (IF Head(lines).kind = "truth" THEN <<Head(lines).item>> ELSE <<>>)
            \o TruthFields(Tail(lines))

extract_truths_from_description(description) ==
    AppendNew(SectionBullets(description, "acceptance") \o TruthFields(description),
              SectionBullets(description, "success"))

\* A mutant of VerificationStatusOf: a stub is looked for before a missing artifact.
StatusStubFirst(errors, truths, artifact_results) ==
    LET has_failed_truths == \E i \in DOMAIN truths : truths[i].status = "fail"
        has_missing_artifacts ==
            \E i \in DOMAIN artifact_results : ~artifact_results[i].exists
        has_stubs == \E i \in DOMAIN artifact_results : artifact_results[i].is_stub
        has_unverified_truths == \E i \in DOMAIN truths : truths[i].status = "?"
    IN  IF errors # <<>> THEN FAILED
        ELSE IF has_stubs \/ has_unverified_truths THEN INCOMPLETE
        ELSE IF has_failed_truths \/ has_missing_artifacts THEN FAILED
        ELSE IF Len(truths) = 0 /\ Len(artifact_results) = 0 THEN INCOMPLETE
        ELSE VERIFIED

\* A mutant of VerificationStatusOf: a truth that is still unknown does not hold
\* the verdict back.
StatusIgnoringUnknown(errors, truths, artifact_results) ==
    LET has_failed_truths == \E i \in DOMAIN truths : truths[i].status = "fail"
        has_missing_artifacts ==
            \E i \in DOMAIN artifact_results : ~artifact_results[i].exists
        has_stubs == \E i \in DOMAIN artifact_results : artifact_results[i].is_stub
    IN  IF errors # <<>> THEN FAILED
        ELSE IF has_failed_truths \/ has_missing_artifacts THEN FAILED
        ELSE IF has_stubs THEN INCOMPLETE
        ELSE IF Len(truths) = 0 /\ Len(artifact_results) = 0 THEN INCOMPLETE
        ELSE VERIFIED

\* "Determine overall status" of verify_task.
VerificationStatusOf(errors, truths, artifact_results) ==
    LET has_failed_truths == \E i \in DOMAIN truths : truths[i].status = "fail"
        has_missing_artifacts ==
            \E i \in DOMAIN artifact_results : ~artifact_results[i].exists
        has_stubs == \E i \in DOMAIN artifact_results : artifact_results[i].is_stub
        has_unverified_truths == \E i \in DOMAIN truths : truths[i].status = "?"
    IN  IF errors # <<>> THEN FAILED
        ELSE IF has_failed_truths \/ has_missing_artifacts THEN FAILED
        ELSE IF has_stubs \/ has_unverified_truths THEN INCOMPLETE
        ELSE IF Len(truths) = 0 /\ Len(artifact_results) = 0 THEN INCOMPLETE
        ELSE VERIFIED

\* The loop over the bullets of the Artifacts section: each path is checked in
\* turn, and an exception of a check ends the loop and the call.
RECURSIVE CheckArtifacts(_, _, _)
CheckArtifacts(fs, paths, done) ==
    IF paths = <<>> THEN [exc |-> "none", results |-> done, fs |-> fs]
    ELSE LET r == check_artifact_substance(fs, Head(paths))
         IN  IF r.exc # "none" THEN [exc |-> r.exc, results |-> done, fs |-> r.fs]
             ELSE CheckArtifacts(r.fs, Tail(paths), Append(done, r.result))

NoVerification ==
    [fn |-> "none", exc |-> "none", task_id |-> "", status |-> INCOMPLETE,
     truths |-> <<>>, artifacts |-> <<>>, links |-> <<>>, errors |-> <<>>,
     strings |-> <<>>, result |-> NoArtifact, fs |-> [p \in ArtifactPaths |-> [kind |-> "missing",
                                                             mtime |-> 1]]]

verify_task(task, fs) ==
    LET errors == <<>>
        truth_strings == extract_truths_from_description(task.description)
        truths == [i \in DOMAIN truth_strings |-> TruthResult(truth_strings[i], "?")]
        checked == CheckArtifacts(fs, SectionBullets(task.description, "artifacts"),
                                  <<>>)
    IN  IF checked.exc # "none"
        THEN [NoVerification EXCEPT !.fn = "verify_task", !.exc = checked.exc,
                                    !.fs = checked.fs]
        ELSE [NoVerification EXCEPT
                !.fn = "verify_task",
                !.task_id = task.id,
                !.status = VerificationStatusOf(errors, truths, checked.results),
                !.truths = truths,
                !.artifacts = checked.results,
                !.errors = errors,
                !.fs = checked.fs]

\* Every description of at most n lines.
RECURSIVE Descriptions(_)
Descriptions(n) ==
    IF n = 0 THEN {<<>>}
    ELSE Descriptions(n - 1)
            \cup {Append(d, l) : d \in {x \in Descriptions(n - 1) : Len(x) = n - 1},
                                 l \in Lines}

InitVerify ==
    /\ \/ \E description \in Descriptions(MaxLines), fs \in FileSystems :
            fnIn = [fn |-> "verify_task",
                    task |-> [id |-> "T-1", description |-> description],
                    path |-> "", fs |-> fs]
       \/ \E fn \in {"check_artifact_exists", "check_artifact_substance"},
             path \in ArtifactPaths, fs \in FileSystems :
            fnIn = [fn |-> fn, task |-> [id |-> "", description |-> <<>>],
                    path |-> path, fs |-> fs]
       \/ \E description \in Descriptions(MaxLines) :
            fnIn = [fn |-> "extract_truths_from_description",
                    task |-> [id |-> "", description |-> description],
                    path |-> "", fs |-> NoVerification.fs]
    /\ fnOut = NoVerification
    /\ file = Absent
    /\ now = 0
    /\ ret = NoRet
    /\ last = NoLast
    /\ attempts = NoAttempts
    /\ procs = NoProcs

ApplyVerifyTask ==
    /\ fnIn.fn = "verify_task" /\ fnOut.fn = "none"
    /\ fnOut' = verify_task(fnIn.task, fnIn.fs)
    /\ UNCHANGED <<file, now, ret, last, attempts, fnIn, procs>>

ApplyCheckArtifactExists ==
    /\ fnIn.fn = "check_artifact_exists" /\ fnOut.fn = "none"
    /\ \E r \in {check_artifact_exists(fnIn.fs, fnIn.path)} :
        fnOut' = [NoVerification EXCEPT !.fn = "check_artifact_exists",
                    !.exc = r.exc, !.result = r.result, !.fs = r.fs]
    /\ UNCHANGED <<file, now, ret, last, attempts, fnIn, procs>>

ApplyCheckArtifactSubstance ==
    /\ fnIn.fn = "check_artifact_substance" /\ fnOut.fn = "none"
    /\ \E r \in {check_artifact_substance(fnIn.fs, fnIn.path)} :
        fnOut' = [NoVerification EXCEPT !.fn = "check_artifact_substance",
                    !.exc = r.exc, !.result = r.result, !.fs = r.fs]
    /\ UNCHANGED <<file, now, ret, last, attempts, fnIn, procs>>

ApplyExtractTruths ==
    /\ fnIn.fn = "extract_truths_from_description" /\ fnOut.fn = "none"
    /\ fnOut' = [NoVerification EXCEPT
                    !.fn = "extract_truths_from_description",
                    !.strings = extract_truths_from_description(fnIn.task.description)]
    /\ UNCHANGED <<file, now, ret, last, attempts, fnIn, procs>>

NextVerify ==
    \/ ApplyVerifyTask
    \/ ApplyCheckArtifactExists
    \/ ApplyCheckArtifactSubstance
    \/ ApplyExtractTruths

SpecVerify == InitVerify /\ [][NextVerify]_vars

\* The paths of the artifact results of a verify_task call.
CheckedPaths == {fnOut.artifacts[i].path : i \in DOMAIN fnOut.artifacts}

VerificationReadOnly ==
    fnOut.fn = "verify_task" => fnOut.fs = fnIn.fs

\* Two artifacts were read, one of them a stub, and the files are as they were.
ReadBothArtifacts ==
    /\ fnOut.fn = "verify_task" /\ fnOut.exc = "none"
    /\ CheckedPaths = ArtifactPaths
    /\ \A i \in DOMAIN fnOut.artifacts : fnOut.artifacts[i].exists
    /\ \E i \in DOMAIN fnOut.artifacts : fnOut.artifacts[i].is_stub
    /\ fnOut.fs = fnIn.fs

\* The two flags of an ArtifactResult agree with each other and with exists.
FlagsAgree(a) ==
    /\ a.is_substantive => ~a.is_stub
    /\ ~a.exists => (~a.is_substantive /\ ~a.is_stub)

\* C19: every ArtifactResult of check_artifact_exists and of
\* check_artifact_substance, called alone or by verify_task, has is_substantive
\* only without is_stub, and neither of them without exists; a missing file raises
\* nothing and gives exists false.
ArtifactFlagsConsistent ==
    /\ (fnOut.fn \in {"check_artifact_exists", "check_artifact_substance"}) =>
            /\ fnOut.exc = "none" => FlagsAgree(fnOut.result)
            /\ fnIn.fs[fnIn.path].kind = "missing" =>
                    (fnOut.exc = "none" /\ ~fnOut.result.exists)
    /\ fnOut.fn = "verify_task" =>
            \A i \in DOMAIN fnOut.artifacts : FlagsAgree(fnOut.artifacts[i])

\* check_artifact_exists was given a path that is missing and answered with all
\* three flags false.
MissingIsNeither ==
    /\ fnOut.fn = "check_artifact_exists"
    /\ fnIn.fs[fnIn.path].kind = "missing"
    /\ fnOut.exc = "none"
    /\ ~fnOut.result.exists /\ ~fnOut.result.is_substantive /\ ~fnOut.result.is_stub

\* C20: a verify_task call whose description lists an artifact that exists and
\* cannot be read returns a result with one entry per listed artifact, the entry of
\* the unreadable one not substantive and explained in its details.
UnreadableArtifactContained ==
    fnOut.fn = "verify_task" =>
        LET listed == SectionBullets(fnIn.task.description, "artifacts")
        IN  (\E i \in DOMAIN listed : fnIn.fs[listed[i]].kind \in {"dir", "denied", "binary"})
                => /\ fnOut.exc = "none"
                   /\ Len(fnOut.artifacts) = Len(listed)
                   /\ \A i \in DOMAIN listed :
                        fnIn.fs[listed[i]].kind \in {"dir", "denied", "binary"} =>
                            /\ fnOut.artifacts[i].path = listed[i]
                            /\ ~fnOut.artifacts[i].is_substantive
                            /\ fnOut.artifacts[i].details # ""

\* The texts of the three conventions of a description, in the order Acceptance
\* Criteria, truth: fields, Success Criteria.
Conventions(description) ==
    SectionBullets(description, "acceptance") \o TruthFields(description)
        \o SectionBullets(description, "success")

\* C21: extract_truths_from_description returns every text of the three
\* conventions once, at the position of its first occurrence in the order
\* Acceptance Criteria, truth: fields, Success Criteria; a description with none of
\* the three gives the empty list.
TruthsUnionWithoutRepeats ==
    fnOut.fn = "extract_truths_from_description" =>
        LET all == Conventions(fnIn.task.description)
            truths == fnOut.strings
            first(s, x) == CHOOSE i \in DOMAIN s : s[i] = x /\ \A j \in DOMAIN s : s[j] = x => i <= j
        IN  /\ Members(truths) = Members(all)
            /\ \A i, j \in DOMAIN truths : truths[i] = truths[j] => i = j
            /\ \A i, j \in DOMAIN truths :
                    i < j => first(all, truths[i]) < first(all, truths[j])
            /\ all = <<>> => truths = <<>>

ReturnsSomething(lines) ==
    \E i \in DOMAIN lines : LineFacts[lines[i]].returns = "expr"
                                /\ LineFacts[lines[i]].expr # "None"

\* C22: of a file with fewer code lines than threshold_lines, detect_stub says
\* stub when no return has a meaningful expression, and not a stub when the file
\* has a definition and a return with a meaningful expression; a file with at
\* least threshold_lines code lines is not decided by the short-file rule.
ShortFileRule ==
    fnOut.fn = "detect_stub" =>
        LET lines == fnIn.lines
            short == Len(CodeLines(lines)) < fnIn.threshold_lines
            defined == \E i \in DOMAIN lines : LineFacts[lines[i]].definition
        IN  /\ (short /\ ~ReturnsSomething(lines)) => fnOut.value
            /\ (short /\ defined /\ ReturnsSomething(lines)) => ~fnOut.value
            /\ ~short => fnOut.rule \notin {"short_return", "short_content"}

\* ---------------------------------------------------------------------------
\* verification.py: check_link
\* ---------------------------------------------------------------------------

\* Longest target file, in import statements.
MaxImports == 2

LinkResult(link_type, is_connected, details) ==
    [link_type |-> link_type, is_connected |-> is_connected, details |-> details]

Modules == {"utils", "other"}

Symbols == {"helper", "unused"}

\* One import statement a line: "from M import a, b", "import M",
\* "import { a, b } from './M';" or "import a from './M';".
Import(form, module, names) == [form |-> form, module |-> module, names |-> names]

Imports ==
    {Import(form, module, names) :
        form \in {"py_from", "js_named"}, module \in Modules,
        names \in {<<"helper">>, <<"unused">>, <<"helper", "unused">>}}
    \cup {Import("py_import", module, <<>>) : module \in Modules}
    \cup {Import("js_default", module, <<name>>) : module \in Modules, name \in Symbols}

\* rf"from\s+{source_name}\s+import\s+[^#\n]*\b{expected_symbol}\b"
MatchesPythonSymbol(statement, source_name, expected_symbol) ==
    /\ statement.form = "py_from"
    /\ statement.module = source_name
    /\ expected_symbol \in Members(statement.names)

\* rf"import\s+\{{[^}}]*\b{expected_symbol}\b[^}}]*\}}\s+from"
MatchesNamedSymbol(statement, expected_symbol) ==
    /\ statement.form = "js_named"
    /\ expected_symbol \in Members(statement.names)

\* rf"import\s+{expected_symbol}\s+from": a default import, or the end of
\* "from M import symbol" with the from of the next line.
MatchesDefaultSymbol(content, i, expected_symbol) ==
    \/ /\ content[i].form = "js_default"
       /\ content[i].names = <<expected_symbol>>
    \/ /\ content[i].form = "py_from"
       /\ content[i].names = <<expected_symbol>>
       /\ i < Len(content)
       /\ content[i + 1].form = "py_from"

\* The import_patterns tried without an expected symbol: each names the module.
MatchesModule(statement, source_name) == statement.module = source_name

check_link(source_name, to_artifact, link_type, expected_symbol) ==
    LET content == to_artifact.content
    IN  IF ~to_artifact.exists
        THEN LinkResult(link_type, FALSE, "Target file does not exist")
        ELSE IF link_type = "import" /\ expected_symbol # ""
        THEN IF \E i \in DOMAIN content :
                    \/ MatchesPythonSymbol(content[i], source_name, expected_symbol)
                    \/ MatchesNamedSymbol(content[i], expected_symbol)
                    \/ MatchesDefaultSymbol(content, i, expected_symbol)
             THEN LinkResult(link_type, TRUE, "Found import of symbol")
             ELSE LinkResult(link_type, FALSE, "Symbol not imported")
        ELSE IF link_type = "import"
                    /\ \E i \in DOMAIN content : MatchesModule(content[i], source_name)
        THEN LinkResult(link_type, TRUE, "Found import of module")
        ELSE LinkResult(link_type, FALSE, "No link found")

\* Every target file of at most n import statements.
RECURSIVE Targets(_)
Targets(n) ==
    IF n = 0 THEN {<<>>}
    ELSE Targets(n - 1)
            \cup {Append(t, s) : t \in {x \in Targets(n - 1) : Len(x) = n - 1},
                                 s \in Imports}

NoLink == [fn |-> "none", link_type |-> "", is_connected |-> FALSE, details |-> ""]

InitLink ==
    /\ \E exists \in BOOLEAN, content \in Targets(MaxImports),
          link_type \in {"import", "call"}, expected_symbol \in Symbols \cup {""} :
            /\ ~exists => content = <<>>
            /\ fnIn = [fn |-> "check_link", source_name |-> "utils",
                       to_artifact |-> [exists |-> exists, content |-> content],
                       link_type |-> link_type, expected_symbol |-> expected_symbol]
    /\ fnOut = NoLink
    /\ file = Absent
    /\ now = 0
    /\ ret = NoRet
    /\ last = NoLast
    /\ attempts = NoAttempts
    /\ procs = NoProcs

ApplyCheckLink ==
    /\ fnIn.fn = "check_link" /\ fnOut.fn = "none"
    /\ \E r \in {check_link(fnIn.source_name, fnIn.to_artifact, fnIn.link_type,
                            fnIn.expected_symbol)} :
        fnOut' = [fn |-> "check_link", link_type |-> r.link_type,
                  is_connected |-> r.is_connected, details |-> r.details]
    /\ UNCHANGED <<file, now, ret, last, attempts, fnIn, procs>>

NextLink == ApplyCheckLink

SpecLink == InitLink /\ [][NextLink]_vars

\* C23: an import link with an expected symbol is connected only if one import
\* statement of the target names both the source module and the symbol; a target
\* that does not exist is never connected.
SymbolLinkNeedsModuleAndSymbol ==
    fnOut.fn = "check_link" =>
        LET content == fnIn.to_artifact.content
        IN  /\ (fnIn.link_type = "import" /\ fnIn.expected_symbol # ""
                    /\ fnOut.is_connected)
                => \E i \in DOMAIN content :
                        /\ content[i].module = fnIn.source_name
                        /\ fnIn.expected_symbol \in Members(content[i].names)
            /\ ~fnIn.to_artifact.exists => ~fnOut.is_connected

\* ---------------------------------------------------------------------------
\* providers.py: check_provider_available, and the task_tracker probe
\* ---------------------------------------------------------------------------

TaskTracker == {"chainlink", "beads", "github", "linear", "markdown", "builtin", "none"}

ProviderStatus(available, reason) == [available |-> available, reason |-> reason]

\* An environment: the CLIs shutil.which finds, and whether project_dir/.beads
\* is a directory.
Environments == [cli : SUBSET {"bd", "gh", "linear"}, beads_dir : BOOLEAN]

check_cli_available(env, command) == command \in env.cli

check_provider_available(tracker, env) ==
    CASE tracker = "beads" ->
            IF ~check_cli_available(env, "bd")
            THEN ProviderStatus(FALSE, "'bd' CLI not found")
            ELSE IF ~env.beads_dir THEN ProviderStatus(FALSE, ".beads/ not initialized")
            ELSE ProviderStatus(TRUE, "")
      [] tracker = "chainlink" -> ProviderStatus(TRUE, "")
      [] tracker = "github" ->
            IF ~check_cli_available(env, "gh")
            THEN ProviderStatus(FALSE, "'gh' CLI not found")
            ELSE ProviderStatus(TRUE, "")
      [] tracker = "linear" ->
            IF ~check_cli_available(env, "linear")
            THEN ProviderStatus(FALSE, "'linear' CLI not found")
            ELSE ProviderStatus(TRUE, "")
      [] tracker = "markdown" -> ProviderStatus(TRUE, "")
      [] tracker = "none" -> ProviderStatus(TRUE, "")
      [] OTHER -> ProviderStatus(FALSE, "Unknown provider")

\* check_task_tracker_health: healthy is the availability of the provider.
TaskTrackerHealth(tracker, env) ==
    LET status == check_provider_available(tracker, env)
    IN  [healthy |-> status.available, component |-> "task_tracker",
         message |-> IF status.reason # "" THEN status.reason ELSE "is healthy"]

NoProvider == [fn |-> "none", available |-> FALSE, reason |-> ""]

InitProvider ==
    /\ \E fn \in {"check_provider_available", "check_task_tracker_health"},
          tracker \in TaskTracker, env \in Environments :
            fnIn = [fn |-> fn, tracker |-> tracker, env |-> env]
    /\ fnOut = NoProvider
    /\ file = Absent
    /\ now = 0
    /\ ret = NoRet
    /\ last = NoLast
    /\ attempts = NoAttempts
    /\ procs = NoProcs

ApplyCheckProviderAvailable ==
    /\ fnIn.fn = "check_provider_available" /\ fnOut.fn = "none"
    /\ \E r \in {check_provider_available(fnIn.tracker, fnIn.env)} :
        fnOut' = [fn |-> "check_provider_available", available |-> r.available,
                  reason |-> r.reason]
    /\ UNCHANGED <<file, now, ret, last, attempts, fnIn, procs>>

ApplyCheckTaskTrackerHealth ==
    /\ fnIn.fn = "check_task_tracker_health" /\ fnOut.fn = "none"
    /\ \E r \in {TaskTrackerHealth(fnIn.tracker, fnIn.env)} :
        fnOut' = [fn |-> "check_task_tracker_health", available |-> r.healthy,
                  reason |-> r.message]
    /\ UNCHANGED <<file, now, ret, last, attempts, fnIn, procs>>

NextProvider == ApplyCheckProviderAvailable \/ ApplyCheckTaskTrackerHealth

SpecProvider == InitProvider /\ [][NextProvider]_vars

\* C24: for the builtin, markdown and none trackers check_provider_available
\* answers available, and the task_tracker probe healthy, in every environment.
LocalTrackersAlwaysAvailable ==
    (fnOut.fn # "none" /\ fnIn.tracker \in {"builtin", "markdown", "none"})
        => fnOut.available

\* The recovery flags of component c in a component map are attempted, and
\* succeeded as given.
RecoveryRecorded(components, c, succeeded) ==
    /\ HasKey(components, c)
    /\ GetItem(components, c).recovery_attempted
    /\ GetItem(components, c).recovery_succeeded = succeeded

\* C25: after a call of run_health_checks that ran the recovery action of a
\* component, the entry of that component in the returned and in the persisted
\* state has recovery_attempted true and recovery_succeeded equal to what the
\* action answered.
RecoveryOutcomeRecorded ==
    [][(CycleStep /\ fnIn.fn = "cycle" /\ ret'.exc = "none") =>
            \A c \in run_health_checks(file, Dt(now), fnIn.inp, "ok").invoked :
                /\ RecoveryRecorded(ret'.state.components, c,
                                    attempt_recovery(c, fnIn.inp))
                /\ RecoveryRecorded(Persisted(file').components, c,
                                    attempt_recovery(c, fnIn.inp))]_vars

\* The states saved so far in a race: the one on disk at the start and those
\* of the invocations that have opened the file.
SavedStates == {fnIn.state} \cup {procs[q].state : q \in {r \in Procs : procs[r].at \in {"dump", "done"}}}

\* C26: a load_state that runs while another invocation is in save_state
\* obtains the state saved before or the state being saved, never the default
\* state load_state makes of a file it cannot read.
LoadSeesSavedState ==
    [][\A p \in Procs :
            (procs[p].at = "load" /\ procs'[p].at = "open") =>
                /\ Valid(file)
                /\ load_state(file, Dt(now)).state \in SavedStates]_vars

\* C27: a call of run_health_checks that ran a recovery action had a candidate
\* level stricter than the level it loaded, and the level it computes after
\* the recovery phase, which an unlocked state is persisted with, is not
\* stricter than the candidate, whatever the recovery actions and the
\* re-probes answer.
RecoveryNeverEscalates ==
    [][(CycleStep /\ fnIn.fn = "cycle" /\ ret'.exc = "none") =>
            LET r == run_health_checks(file, Dt(now), fnIn.inp, "ok")
            IN  r.invoked # {} =>
                    /\ r.candidate > load_state(file, Dt(now)).state.level
                    /\ r.new_level <= r.candidate
                    /\ ~ret'.state.locked =>
                        /\ ret'.state.level = r.new_level
                        /\ Persisted(file').level <= r.candidate]_vars

\* The first cycle ran a recovery action on an unlocked state, and the re-probe
\* brought the level below the candidate.
RecoveryLoweredLevel ==
    /\ fnIn.fn = "cycle"
    /\ now = 2
    /\ ~fnIn.state.locked
    /\ LET r == run_health_checks(FileOf(fnIn.state), Dt(1), fnIn.inp, "ok")
       IN  /\ r.invoked # {}
           /\ r.new_level < r.candidate
           /\ file = r.file
           /\ ret.state.level = r.new_level

(***************************************************************************)
(* The four operations alone, from the default state: nothing but          *)
(* run_health_checks, lock_level, unlock_level and reset_to_full touches   *)
(* the state file.                                                         *)
(***************************************************************************)
NextOps ==
    \/ RunHealthChecks
    \/ LockLevel
    \/ UnlockLevel
    \/ ResetToFull

SpecOps == Init /\ [][NextOps]_vars

\* C28: from the default state, whatever the probes, the recovery actions and
\* the disk answer, the four operations never persist level RECOVERY: the
\* state file is absent or holds a state of level FULL, REDUCED, MANUAL or
\* SAFE, and is_feature_available("git_operations") answers true.
RecoveryLevelNeverPersisted ==
    /\ file.exists =>
        /\ Valid(file)
        /\ Persisted(file).level \in {FULL, REDUCED, MANUAL, SAFE}
    /\ is_feature_available(file, Dt(now), "git_operations") =
            [exc |-> "none", value |-> TRUE]

\* A cycle persisted SAFE, the strictest level compute_degradation_level
\* gives, and git_operations is still available.
SafeKeepsGitOperations ==
    /\ last.op = "run_health_checks"
    /\ Valid(file)
    /\ Persisted(file).level = SAFE
    /\ last.level # SAFE
    /\ is_feature_available(file, Dt(now), "git_operations").value

(***************************************************************************)
(* lock_level concurrent with run_health_checks: invocation "A" runs       *)
(* run_health_checks, invocation "B" runs lock_level, on one state file.   *)
(* Each loads the state, works on it in memory, then opens the file and    *)
(* dumps its state (save_state).                                           *)
(***************************************************************************)
InitLock ==
    /\ \E state \in StoredStates, inp \in RaceInputs :
        /\ ~state.locked
        /\ file = FileOf(state)
        /\ fnIn = [fn |-> "lock", state |-> state, feature |-> "", inp |-> inp]
    /\ now = 1
    /\ ret = NoRet
    /\ last = NoLast
    /\ attempts = NoAttempts
    /\ fnOut = Unused
    /\ procs = [p \in Procs |-> [at |-> IF p = "A" THEN "load" ELSE "lock",
                                 state |-> NoState]]

\* Lines 483-485 of invocation p: load_state, then locked and lock_reason are
\* set on the state in memory.
LockLoad(p) ==
    /\ procs[p].at = "lock"
    /\ \E loaded \in {load_state(file, Dt(now))} :
        procs' = [procs EXCEPT ![p] =
                    [at |-> "open",
                     state |-> [loaded.state EXCEPT !.locked = TRUE,
                                                    !.lock_reason = "maintenance"]]]
    /\ last' = [NoLast EXCEPT !.op = "race"]
    /\ now' = now + 1
    /\ UNCHANGED <<file, ret, attempts, fnIn, fnOut>>

NextLock ==
    \/ RaceLoad("A")
    \/ LockLoad("B")
    \/ \E p \in Procs : RaceOpen(p)
    \/ \E p \in Procs : RaceDump(p)

SpecLock == InitLock /\ [][NextLock]_vars

\* C29: once lock_level has completed and no save is under way, the state file
\* holds a locked state with the level lock_level wrote, wherever the
\* concurrent run_health_checks stood when the lock was written.
LockSurvivesConcurrentCycle ==
    (procs["B"].at = "done" /\ procs["A"].at # "dump") =>
        /\ Valid(file)
        /\ Persisted(file).locked
        /\ Persisted(file).level = procs["B"].state.level

====
